---- MODULE Spec2Model ----
(***************************************************************************)
(* Model of the bulge-chasing reduction of src/src/hb2td.cc: the worker    *)
(* loop hb2td_run, the step hb2td_step, and the driver hb2td that creates  *)
(* the lock, the Reflector Store and the Progress Table and starts         *)
(* thread_size workers; and of internal::unmlq of                          *)
(* src/src/internal/internal_unmlq.cc, which applies a block reflector     *)
(* (V, T) to the local tiles of C through the workspace W.                 *)
(***************************************************************************)
EXTENDS Integers, FiniteSets, Sequences, TLC

\* ------------------------------------------------------------------ bounds
\* Largest matrix order A.n() explored.
MaxDiagLen == 8
\* Largest bandwidth argument explored (the smallest is 2).
MaxBand == 4
\* Largest omp_get_max_threads() explored.
MaxThreads == 7
\* When pass_size is chosen freely: the largest pass_size, thread_size and
\* matrix order explored.
MaxPassSize == 3
MaxPassThreads == 5
MaxPassDiagLen == 7
\* hb2td with a Target entry: largest matrix order and number of threads
MaxTargetDiagLen == 6
MaxTargetThreads == 4
\* hb2td with its workers run as tasks: largest matrix order and thread_size
MaxTaskDiagLen == 6
MaxTaskThreads == 4
\* unmlq: the most tile rows and tile columns of C, the largest tile size, and
\* the most calls a caller chains.
MaxTiles == 2
MaxTileSize == 2
MaxCalls == 2
\* unmlq on a long C: the most tile rows (left) or tile columns (right).
MaxBlocks == 5

VARIABLES
    band,          \* hb2td's argument
    diag_len,      \* A.n()
    thread_size,   \* omp_get_max_threads()
    pass_size,     \* hb2td_run's argument
    progress,      \* Progress: one counter per sweep
    reflectors,    \* Reflectors: the keys present in the map
    lock,          \* omp_lock_t: 0 when unset, else 1 + rank of the holder
    pc,            \* per worker: where it is in hb2td_run / hb2td_step
    pass,          \* per worker: hb2td_run's local `pass`
    step,          \* per worker: hb2td_run's local `step`
    sweep,         \* per worker: hb2td_run's local `sweep`
    start_thread,  \* per worker: hb2td_run's local `start_thread`
    calls,         \* history: how many times hb2td_step(sweep, step) was called
    opts,          \* hb2td's argument opts: its Option::Target entry
    team           \* threads that execute the invocations of hb2td_run

VARIABLES
    side,          \* unmlq's argument: "Left" or "Right"
    op,            \* unmlq's argument: "NoTrans" or "ConjTrans"
    target,        \* unmlq's template argument
    V,             \* the operand V: tile grid, tile height, elements
    T,             \* the operand T: tile grid, elements of the tile used
    C,             \* the operand C: tile grid, tile sizes, local tiles, elements,
                   \*   tiles fetched for writing on the host, tiles held on devices
    W,             \* the workspace W: tile grid, tiles present, elements
    upc,           \* where the call of unmlq stands
    indices,       \* row_indices (left) or col_indices (right)
    loop_i,        \* the index i of the loop over the further local blocks
    issued,        \* history: the kernel calls made, in order
    pending,       \* kernel calls whose tasks have not all finished
    applied        \* history: op of each call of unmlq made on C, the entry values of C

VARIABLES
    cfg            \* config.hh: the environment, the GPU_Aware_MPI singleton, and
                   \*   history: the last getter result, the last value set, the
                   \*   environment at the first access, the number of getenv calls

hb2td_vars == <<band, diag_len, thread_size, pass_size, progress, reflectors, lock,
                pc, pass, step, sweep, start_thread, calls, opts, team>>

unmlq_vars == <<side, op, target, V, T, C, W, upc, indices, loop_i, issued, pending,
                applied>>

vars == <<band, diag_len, thread_size, pass_size, progress, reflectors, lock,
          pc, pass, step, sweep, start_thread, calls,
          opts, team,
          side, op, target, V, T, C, W, upc, indices, loop_i, issued, pending,
          applied, cfg>>

\* ------------------------------------------------------------ pure helpers
Min(a, b) == IF a < b THEN a ELSE b

\* The quotient a / b of two int64_t, which truncates towards zero.  Division
\* by zero is undefined: where the divide instruction does not trap it yields
\* 0 (the trap is an outcome of its own, see InitBand).
quotient(a, b) ==
    LET q == (IF a < 0 THEN 0 - a ELSE a) \div (IF b < 0 THEN 0 - b ELSE b)
    IN  IF b = 0 THEN 0
        ELSE IF (a < 0) # (b < 0) THEN 0 - q
        ELSE q

\* The remainder a % b of C++, which has the sign of a.
remainder(a, b) == IF a >= 0 THEN a % b ELSE 0 - ((0 - a) % b)

\* ceildiv of slate/internal/util.hh: (a + b - 1) / b.
ceildiv(a, b) == quotient(a + b - 1, b)

\* Worker ranks of the parallel for of hb2td.
Threads == 0 .. thread_size - 1

\* Indices of the Progress Table (diag_len-2 counters).
Sweeps == 0 .. diag_len - 3

\* 2*ceildiv(diag_len - 1 - sweep, band-1) - 1: the steps of one sweep.
nsteps(k) == 2 * ceildiv(diag_len - 1 - k, band - 1) - 1

\* Variant of nsteps_sweep: the count is taken from diag_len - sweep.
nsteps_sweep_off_by_one(k) == 2 * ceildiv(diag_len - k, band - 1) - 1

\* nsteps_sweep of hb2td_run.
nsteps_sweep(k) == nsteps(k)

\* nsteps_last of hb2td_run: the steps of sweep-1.
nsteps_last(k) == nsteps(k - 1)

\* nsteps_pass of hb2td_run: the steps of the first sweep of the pass.
nsteps_pass(p) == nsteps(p)

\* Variant of sweep_end: the end of the pass is not clamped to diag_len-2.
sweep_end_unclamped(p) == p + pass_size

\* sweep_end of hb2td_run.
sweep_end(p) == Min(p + pass_size, diag_len - 2)

\* Variant of step_begin: the workers do not rotate.
step_begin_fixed(rank, start) == rank

\* step_begin of hb2td_run.
step_begin(rank, start) == remainder(rank - start + thread_size, thread_size)

\* Variant of depend: the last step of sweep-1 is taken one too far.
depend_past_last(k, s) == Min(s + 2, nsteps_last(k))

\* depend of hb2td_run: the step sweep-1 must have recorded.
depend(k, s) == Min(s + 2, nsteps_last(k) - 1)

\* The steps hb2td_run is meant to issue.
ValidSteps == { ks \in Sweeps \X (0 .. 2 * MaxDiagLen) : ks[2] < nsteps(ks[1]) }

\* No call of unmlq is in progress and none has been made: empty operands.
\* ------------------------------------------------------------- config.hh
\* What getenv("SLATE_GPU_AWARE_MPI") may return: nullptr or a string.
EnvValues == {"unset", "", "1", "0", "11"}

\* Variant of from_env: any non-empty value enables.
from_env_nonempty(env) == env # "unset" /\ env # ""

\* GPU_Aware_MPI(): env != nullptr && (strcmp(env, "") == 0 || strcmp(env, "1") == 0)
from_env(env) == env # "unset" /\ (env = "" \/ env = "1")

\* How a bool is recorded in the history fields.
shown(b) == IF b THEN "true" ELSE "false"

\* get(): the function-local static is constructed by the first call, which
\* reads the environment; later calls return the same object.
get(c) ==
    IF c.constructed
    THEN c
    ELSE [c EXCEPT !.constructed = TRUE,
                   !.gpu_aware_mpi_ = from_env(c.env),
                   !.first_env = c.env,
                   !.getenvs = c.getenvs + 1]

\* Before any access: the singleton is not constructed.
fresh(env) ==
    [env |-> env, constructed |-> FALSE, gpu_aware_mpi_ |-> FALSE, last |-> "none",
     result |-> "none", set |-> "none", first_env |-> "none", getenvs |-> 0]

\* No use of config.hh.
NoConfig == cfg = fresh("unset")

\* bool gpu_aware_mpi(): GPU_Aware_MPI::value() returns get().gpu_aware_mpi_.
Getter ==
    /\ cfg' = [get(cfg) EXCEPT !.result = shown(get(cfg).gpu_aware_mpi_),
                               !.last = "get"]
    /\ UNCHANGED <<hb2td_vars, unmlq_vars>>

\* void gpu_aware_mpi(bool value): GPU_Aware_MPI::value(val) assigns
\* get().gpu_aware_mpi_ = val.
Setter(val) ==
    /\ cfg' = [get(cfg) EXCEPT !.gpu_aware_mpi_ = val, !.set = shown(val),
                               !.last = "set"]
    /\ UNCHANGED <<hb2td_vars, unmlq_vars>>

\* The environment variable is changed or removed while the program runs.
Setenv(v) ==
    /\ v # cfg.env
    /\ cfg' = [cfg EXCEPT !.env = v, !.last = "env"]
    /\ UNCHANGED <<hb2td_vars, unmlq_vars>>

NoUnmlq ==
    /\ side = "Left"
    /\ op = "NoTrans"
    /\ target = "HostTask"
    /\ V = [mt |-> 0, nt |-> 0, tileMb |-> 0, val |-> << >>]
    /\ T = [mt |-> 0, nt |-> 0, val |-> << >>]
    /\ C = [mt |-> 0, nt |-> 0, tileMb |-> << >>, tileNb |-> << >>, local |-> {},
            val |-> << >>, host |-> {}, held |-> {}]
    /\ W = [mt |-> 0, nt |-> 0, tiles |-> {}, val |-> << >>]
    /\ upc = "idle"
    /\ indices = << >>
    /\ loop_i = 0
    /\ issued = << >>
    /\ pending = 0
    /\ applied = [ops |-> << >>, C_first |-> << >>, C_entry |-> << >>]

\* ------------------------------------------------- hb2td_step: pure parts
\* task and block of hb2td_step.
task(s) == IF s = 0 THEN 0 ELSE ((s + 1) % 2) + 1
block(s) == s \div 2

\* Row coordinate i of the step.
coord_i(k, s) ==
    CASE task(s) = 0 -> k
      [] task(s) = 1 -> (block(s) + 1) * (band - 1) + 1 + k
      [] task(s) = 2 -> block(s) * (band - 1) + 1 + k

\* Column coordinate j of the step.
coord_j(k, s) ==
    CASE task(s) = 0 -> k
      [] task(s) = 1 -> block(s) * (band - 1) + 1 + k
      [] task(s) = 2 -> block(s) * (band - 1) + 1 + k

\* Variant of in_range: the guard is left out.
in_range_unguarded(k, s) == TRUE

\* The range guard  i < A.n() && j < A.n().
in_range(k, s) == coord_i(k, s) < diag_len /\ coord_j(k, s) < diag_len

\* Key of the reflector the step writes (v of task 0, v2 of task 1); none for task 2.
out_keys(k, s) ==
    CASE task(s) = 0 -> { <<coord_i(k, s) + 1, coord_j(k, s)>> }
      [] task(s) = 1 -> { <<coord_i(k, s), coord_j(k, s)>> }
      [] task(s) = 2 -> {}

\* Variant of in_keys: task 1 takes j-(band-1) for step 1 too.
in_keys_no_first_case(k, s) ==
    CASE task(s) = 0 -> {}
      [] task(s) = 1 -> { <<coord_i(k, s) - (band - 1), coord_j(k, s) - (band - 1)>> }
      [] task(s) = 2 -> { <<coord_i(k, s), coord_j(k, s) - (band - 1)>> }

\* Key of the reflector the step reads (v1 of task 1, v of task 2); none for task 0.
in_keys(k, s) ==
    CASE task(s) = 0 -> {}
      [] task(s) = 1 -> { <<coord_i(k, s) - (band - 1),
                            IF s = 1 THEN coord_j(k, s) - 1
                                     ELSE coord_j(k, s) - (band - 1)>> }
      [] task(s) = 2 -> { <<coord_i(k, s), coord_j(k, s) - (band - 1)>> }

\* Every key the step looks up with reflectors[...] while it holds the lock.
lookup_keys(k, s) == in_keys(k, s) \cup out_keys(k, s)

\* Elements (row, col), row >= col, of the slice of A handed to the kernel.
slice(k, s) ==
    LET i == coord_i(k, s)
        j == coord_j(k, s)
        n == diag_len
    IN  CASE task(s) = 0 ->
               { rc \in (i .. Min(i + band - 1, n - 1)) \X (i .. Min(i + band - 1, n - 1)) :
                   rc[1] >= rc[2] }
          [] task(s) = 1 ->
               (i .. Min(i + band - 2, n - 1)) \X (j .. Min(j + band - 2, n - 1))
          [] task(s) = 2 ->
               { rc \in (i .. Min(i + band - 2, n - 1)) \X (i .. Min(i + band - 2, n - 1)) :
                   rc[1] >= rc[2] }

\* ------------------------------------------- hb2td_run: the loop structure
\* A place in the three nested loops: either the body for (pass, step, sweep)
\* with step < nsteps_sweep, or the end of the function.
Done == [done |-> TRUE, pass |-> 0, step |-> 0, sweep |-> 0, start |-> 0]
At(p, s, k, st) == [done |-> FALSE, pass |-> p, step |-> s, sweep |-> k, start |-> st]

RECURSIVE enter_pass(_, _, _), enter_step(_, _, _, _), enter_sweep(_, _, _, _, _)

\* Loop head of  for (sweep = pass; sweep < sweep_end; ++sweep)  and the test
\* if (step < nsteps_sweep).
enter_sweep(rank, p, st, s, k) ==
    IF k < sweep_end(p)
    THEN IF s < nsteps_sweep(k)
         THEN At(p, s, k, st)
         ELSE enter_sweep(rank, p, st, s, k + 1)
    ELSE enter_step(rank, p, st, s + thread_size)

\* Loop head of  for (step = step_begin; step < nsteps_pass; step += thread_size).
enter_step(rank, p, st, s) ==
    IF s < nsteps_pass(p)
    THEN enter_sweep(rank, p, st, s, p)
    ELSE enter_pass(rank, p + pass_size, remainder(st + nsteps_pass(p), thread_size))

\* Loop head of  for (pass = 0; pass < diag_len-2; pass += pass_size).
enter_pass(rank, p, st) ==
    IF p < diag_len - 2
    THEN enter_step(rank, p, st, step_begin(rank, st))
    ELSE Done

\* The place reached from the entry of hb2td_run (start_thread = 0, pass = 0).
first_iter(rank) == enter_pass(rank, 0, 0)

\* The place reached after the body for (pass, step, sweep) has run.
next_iter(rank, p, st, s, k) == enter_sweep(rank, p, st, s, k + 1)

\* The first rank of the iterations that thread th of the team executes: the
\* parallel for has no schedule clause, and the build divides the thread_size
\* iterations statically into one block of consecutive ranks per thread, the
\* first thread_size % team blocks one longer.
chunk_begin(th) ==
    LET q == thread_size \div team
        r == thread_size % team
    IN  IF th < r THEN (q + 1) * th ELSE q * th + r

\* The ranks that the thread of rank t executes before rank t.
earlier_ranks(t) ==
    { v \in Threads : v < t /\ \A th \in 0 .. team - 1 : ~(v < chunk_begin(th) /\ chunk_begin(th) <= t) }

\* The ranks that the thread of rank t takes up when rank t returns: the
\* next rank of its block and, while that one returns at once, the one after.
resumed(t) ==
    { u \in Threads :
        /\ pc[u] = "queued"
        /\ t \in earlier_ranks(u)
        /\ \A v \in earlier_ranks(u) : v > t => first_iter(v).done }

\* Move worker t to place `at`; when hb2td_run returns, its thread goes on
\* with the iterations of the parallel for that it has left.
Goto(t, at) ==
    /\ pc' = [u \in Threads |->
                IF u = t THEN (IF at.done THEN "done" ELSE "wait_prev")
                ELSE IF at.done /\ u \in resumed(t)
                THEN (IF first_iter(u).done THEN "done" ELSE "wait_prev")
                ELSE pc[u]]
    /\ pass' = [pass EXCEPT ![t] = at.pass]
    /\ step' = [step EXCEPT ![t] = at.step]
    /\ sweep' = [sweep EXCEPT ![t] = at.sweep]
    /\ start_thread' = [start_thread EXCEPT ![t] = at.start]

\* ------------------------------------------------------------ dispatch
\* The enumerators of Target.
Targets == {"Host", "HostTask", "HostNest", "HostBatch", "Devices"}

\* What the options may hold for Option::Target: nothing, an enumerator, or an
\* integer that is the value of no enumerator.
Options == Targets \cup {"absent", "other"}

\* Variant of target_of: a missing entry is not replaced by a default.
target_of_no_default(o) == o

\* target = Target(opts.at(Option::Target).i_), HostTask on std::out_of_range.
target_of(o) == IF o = "absent" THEN "HostTask" ELSE o

\* switch (target): the instantiation of hb2td that is called; Host shares the
\* case of HostTask, and the switch has no default.
hb2td_variant(o) ==
    CASE target_of(o) \in {"Host", "HostTask"} -> "HostTask"
      [] target_of(o) = "HostNest" -> "HostNest"
      [] target_of(o) = "HostBatch" -> "HostBatch"
      [] target_of(o) = "Devices" -> "Devices"
      [] OTHER -> "none"

\* ------------------------------------------------------------------ Init
\* hb2td_run divides by band-1 = 0: band = 1 and the pass loop is entered.
DivideByZero == band = 1 /\ diag_len - 2 > 0

\* Progress progress(diag_len-2) with diag_len < 2: the int64_t -1 or -2 becomes
\* a size_type above max_size(), and the constructor of std::vector throws
\* std::length_error.
NegativeLength == diag_len - 2 < 0

\* Where the workers stand once every thread of the team has reached the
\* first loop body of hb2td_run: at that body, returned (the ranks without a
\* step that the thread has been through), or queued behind an earlier rank
\* of the same thread; when the pass loop divided by zero, possibly all
\* stopped by the trap of the divide instruction (SIGFPE); and never started
\* when the Progress Table could not be constructed (std::length_error leaves
\* hb2td).
start_pcs ==
    IF hb2td_variant(opts) = "none"
    THEN { [t \in Threads |-> "done"] }
    ELSE IF NegativeLength
    THEN { [t \in Threads |-> "length_error"] }
    ELSE { [t \in Threads |->
                IF \E v \in earlier_ranks(t) : ~first_iter(v).done THEN "queued"
                ELSE IF first_iter(t).done THEN "done" ELSE "wait_prev"] }
            \cup (IF DivideByZero THEN { [t \in Threads |-> "sigfpe"] } ELSE {})

\* hb2td up to the workers' first loop bodies: lock initialised, reflectors
\* empty, every progress counter -1, and the thread_size iterations of the
\* parallel for dealt to the team the runtime grants: num_threads(thread_size)
\* is a request, and the team has 1 to thread_size threads.  The first rank of
\* each thread is inside hb2td_run with start_thread = 0, at its first body or
\* already returned.
InitOpts(options, bands, lens, sizes, passSizes) ==
    /\ opts \in options
    /\ band \in bands
    /\ diag_len \in lens
    /\ thread_size \in sizes
    /\ pass_size \in passSizes
    /\ progress = [k \in Sweeps |-> -1]
    /\ reflectors = {}
    /\ lock = 0
    /\ team \in 1 .. thread_size
    /\ pc \in start_pcs
    /\ pass = [t \in Threads |-> first_iter(t).pass]
    /\ step = [t \in Threads |-> first_iter(t).step]
    /\ sweep = [t \in Threads |-> first_iter(t).sweep]
    /\ start_thread = [t \in Threads |-> first_iter(t).start]
    /\ calls = [ks \in {} |-> 0]
    /\ NoUnmlq
    /\ NoConfig

\* hb2td called without a Target entry in opts.
InitBand(bands, lens, sizes, passSizes) ==
    InitOpts({"absent"}, bands, lens, sizes, passSizes)

\* hb2td called with a band of 2 or more.
InitWith(lens, sizes, passSizes) == InitBand(2 .. MaxBand, lens, sizes, passSizes)

\* pass_size = ceildiv(thread_size, 3), as hb2td passes it.
Init == InitWith(2 .. MaxDiagLen, 1 .. MaxThreads, { ceildiv(thread_size, 3) })

\* --------------------------------------------------------------- actions
\* Variant of prev_ready: the lookahead is one step instead of two.
prev_ready_one_ahead(t) ==
    sweep[t] > 0 =>
        progress[sweep[t] - 1] >= Min(step[t] + 1, nsteps_last(sweep[t]) - 1)

\* May the wait on sweep-1 end?  while (progress.at(sweep-1).load() < depend) {}
prev_ready(t) ==
    sweep[t] > 0 => progress[sweep[t] - 1] >= depend(sweep[t], step[t])

\* Variant of self_ready: the wait on this sweep is left out.
self_ready_no_wait(t) == TRUE

\* Variant of self_ready: the wait is for step-2 instead of step-1.
self_ready_two_back(t) ==
    step[t] > 0 => progress[sweep[t]] >= step[t] - 2

\* May the wait on this sweep end?  while (progress.at(sweep).load() < step-1) {}
self_ready(t) ==
    step[t] > 0 => progress[sweep[t]] >= step[t] - 1

\* The busy-wait on the previous sweep ends.
WaitPrev(t) ==
    /\ pc[t] = "wait_prev"
    /\ prev_ready(t)
    /\ pc' = [pc EXCEPT ![t] = "wait_self"]
    /\ UNCHANGED <<opts, team, cfg>>
    /\ UNCHANGED unmlq_vars
    /\ UNCHANGED <<band, diag_len, thread_size, pass_size, progress, reflectors,
                   lock, pass, step, sweep, start_thread, calls>>

\* The busy-wait on this sweep ends and hb2td_step is called.
WaitSelf(t) ==
    /\ pc[t] = "wait_self"
    /\ self_ready(t)
    /\ pc' = [pc EXCEPT ![t] = "step"]
    /\ calls' = LET ks == <<sweep[t], step[t]>>
                IN  IF ks \in DOMAIN calls
                    THEN [calls EXCEPT ![ks] = @ + 1]
                    ELSE [x \in DOMAIN calls \cup {ks} |->
                             IF x = ks THEN 1 ELSE calls[x]]
    /\ UNCHANGED <<opts, team, cfg>>
    /\ UNCHANGED unmlq_vars
    /\ UNCHANGED <<band, diag_len, thread_size, pass_size, progress, reflectors,
                   lock, pass, step, sweep, start_thread>>

\* Variant of lock_free: omp_set_lock returns whether or not the lock is set.
lock_free_ignored(t) == TRUE

\* May omp_set_lock return for worker t?
lock_free(t) == lock = 0

\* hb2td_step up to omp_set_lock: the range guard, then the lock is taken;
\* out of range, the step does nothing.
SetLock(t) ==
    /\ pc[t] = "step"
    /\ IF in_range(sweep[t], step[t])
       THEN /\ lock_free(t)
            /\ lock' = t + 1
            /\ pc' = [pc EXCEPT ![t] = "lookup"]
       ELSE /\ pc' = [pc EXCEPT ![t] = "store"]
            /\ UNCHANGED lock
    /\ UNCHANGED <<opts, team, cfg>>
    /\ UNCHANGED unmlq_vars
    /\ UNCHANGED <<band, diag_len, thread_size, pass_size, progress, reflectors,
                   pass, step, sweep, start_thread, calls>>

\* reflectors[{...}] for every key of the step: a missing key is inserted.
Lookup(t) ==
    /\ pc[t] = "lookup"
    /\ reflectors' = reflectors \cup lookup_keys(sweep[t], step[t])
    /\ pc' = [pc EXCEPT ![t] = "unlock"]
    /\ UNCHANGED <<opts, team, cfg>>
    /\ UNCHANGED unmlq_vars
    /\ UNCHANGED <<band, diag_len, thread_size, pass_size, progress, lock,
                   pass, step, sweep, start_thread, calls>>

\* omp_unset_lock; the kernel is called next.
UnsetLock(t) ==
    /\ pc[t] = "unlock"
    /\ lock' = 0
    /\ pc' = [pc EXCEPT ![t] = "kernel"]
    /\ UNCHANGED <<opts, team, cfg>>
    /\ UNCHANGED unmlq_vars
    /\ UNCHANGED <<band, diag_len, thread_size, pass_size, progress, reflectors,
                   pass, step, sweep, start_thread, calls>>

\* internal::hebr1 / hebr2 / hebr3 runs on the slice and returns.
Kernel(t) ==
    /\ pc[t] = "kernel"
    /\ pc' = [pc EXCEPT ![t] = "store"]
    /\ UNCHANGED <<opts, team, cfg>>
    /\ UNCHANGED unmlq_vars
    /\ UNCHANGED <<band, diag_len, thread_size, pass_size, progress, reflectors,
                   lock, pass, step, sweep, start_thread, calls>>

\* Variant of stored: the step after the one just run is recorded.
stored_next_step(t) == step[t] + 1

\* The value written by  progress.at(sweep).store(step).
stored(t) == step[t]

\* progress.at(sweep).store(step), then the loop heads up to the next body.
Store(t) ==
    /\ pc[t] = "store"
    /\ progress' = [progress EXCEPT ![sweep[t]] = stored(t)]
    /\ Goto(t, next_iter(t, pass[t], start_thread[t], step[t], sweep[t]))
    /\ UNCHANGED <<opts, team, cfg>>
    /\ UNCHANGED unmlq_vars
    /\ UNCHANGED <<band, diag_len, thread_size, pass_size, reflectors, lock, calls>>

Next ==
    \/ \E t \in Threads : WaitPrev(t)
    \/ \E t \in Threads : WaitSelf(t)
    \/ \E t \in Threads : SetLock(t)
    \/ \E t \in Threads : Lookup(t)
    \/ \E t \in Threads : UnsetLock(t)
    \/ \E t \in Threads : Kernel(t)
    \/ \E t \in Threads : Store(t)

Spec == Init /\ [][Next]_vars

\* One worker's next step.  An invocation of hb2td_run that a thread of the
\* parallel region has entered is scheduled again and again while it can run;
\* an invocation queued behind another on the same thread has no step to take
\* until that one returns.
Worker(t) ==
    /\ t \in Threads
    /\ \/ WaitPrev(t)
       \/ WaitSelf(t)
       \/ SetLock(t)
       \/ Lookup(t)
       \/ UnsetLock(t)
       \/ Kernel(t)
       \/ Store(t)

Fairness == \A t \in 0 .. MaxThreads : WF_vars(Worker(t))

\* hb2td with its workers scheduled fairly.
FairSpec == Spec /\ Fairness

\* hb2td_run called with any pass_size, not only the one hb2td computes.
InitPass == InitWith(2 .. MaxPassDiagLen, 1 .. MaxPassThreads, 1 .. MaxPassSize)
SpecPass == InitPass /\ [][Next]_vars
FairSpecPass == SpecPass /\ Fairness

\* hb2td called with any Target entry in opts, or none.
InitTargets ==
    InitOpts(Options, 2 .. MaxBand, 2 .. MaxTargetDiagLen, 1 .. MaxTargetThreads,
             { ceildiv(thread_size, 3) })
SpecTargets == InitTargets /\ [][Next]_vars

\* The invocations of hb2td_run that occupy a thread: started, not returned.
Occupying == { u \in Threads : pc[u] \notin {"not_started", "done"} }

\* Variant of free_thread: a thread is always found.
free_thread_always == TRUE

\* Is a thread of the team free to take up a task?  A task, once started, keeps
\* its thread until hb2td_run returns.
free_thread == Cardinality(Occupying) < team

\* A thread takes up the task of rank t: hb2td_run is entered and runs up to
\* its first loop body, or returns when it has no step.
Start(t) ==
    /\ pc[t] = "not_started"
    /\ free_thread
    /\ Goto(t, first_iter(t))
    /\ UNCHANGED <<opts, team, cfg>>
    /\ UNCHANGED unmlq_vars
    /\ UNCHANGED <<band, diag_len, thread_size, pass_size, progress, reflectors,
                   lock, calls>>

\* The #else branch of hb2td: the thread_size invocations of hb2td_run are the
\* tasks of a taskloop, executed by a team of 1 to thread_size threads.
InitTasks ==
    /\ opts = "absent"
    /\ band \in 2 .. MaxBand
    /\ diag_len \in 2 .. MaxTaskDiagLen
    /\ thread_size \in 1 .. MaxTaskThreads
    /\ pass_size = ceildiv(thread_size, 3)
    /\ team \in 1 .. thread_size
    /\ progress = [k \in Sweeps |-> -1]
    /\ reflectors = {}
    /\ lock = 0
    /\ pc = [t \in Threads |-> "not_started"]
    /\ pass = [t \in Threads |-> 0]
    /\ step = [t \in Threads |-> 0]
    /\ sweep = [t \in Threads |-> 0]
    /\ start_thread = [t \in Threads |-> 0]
    /\ calls = [ks \in {} |-> 0]
    /\ NoUnmlq
    /\ NoConfig
NextTasks ==
    \/ \E t \in Threads : Start(t)
    \/ \E t \in Threads : WaitPrev(t)
    \/ \E t \in Threads : WaitSelf(t)
    \/ \E t \in Threads : SetLock(t)
    \/ \E t \in Threads : Lookup(t)
    \/ \E t \in Threads : UnsetLock(t)
    \/ \E t \in Threads : Kernel(t)
    \/ \E t \in Threads : Store(t)
SpecTasks == InitTasks /\ [][NextTasks]_vars

\* hb2td called on a matrix of any order from 0 on.
InitAnyOrder ==
    InitBand(2 .. MaxBand, 0 .. MaxPassDiagLen, 1 .. MaxPassThreads,
             { ceildiv(thread_size, 3) })
SpecAnyOrder == InitAnyOrder /\ [][Next]_vars

\* hb2td called with any band from 1 on.
InitAnyBand ==
    InitBand(1 .. MaxBand, 2 .. MaxPassDiagLen, 1 .. MaxPassThreads,
             { ceildiv(thread_size, 3) })
SpecAnyBand == InitAnyBand /\ [][Next]_vars

\* hb2td_step called on its own: a driver calls hb2td_step(A, band, sweep,
\* step, ..) once, with any sweep of the Progress Table and any step from 0 to
\* 2*MaxDiagLen, in or out of range, on an empty Reflector Store.  hb2td_run
\* itself calls hb2td_step only with step < nsteps_sweep and its two waits
\* over, and only then stores the step.
InitStep ==
    /\ band \in 2 .. MaxBand
    /\ diag_len \in 3 .. MaxDiagLen
    /\ thread_size = 1
    /\ pass_size = 1
    /\ progress = [k \in Sweeps |-> -1]
    /\ reflectors = {}
    /\ lock = 0
    /\ pc = [t \in Threads |-> "step"]
    /\ start_thread = [t \in Threads |-> 0]
    /\ \E k \in Sweeps, s \in 0 .. 2 * MaxDiagLen :
          /\ pass = [t \in Threads |-> k]
          /\ sweep = [t \in Threads |-> k]
          /\ step = [t \in Threads |-> s]
          /\ calls = [ks \in { <<k, s>> } |-> 1]
    /\ opts = "absent"
    /\ team = thread_size
    /\ NoUnmlq
    /\ NoConfig
\* The one call of hb2td_step, up to its return (pc = "store" is the place
\* after the call); the driver stores nothing.
NextStep ==
    \/ \E t \in Threads : SetLock(t)
    \/ \E t \in Threads : Lookup(t)
    \/ \E t \in Threads : UnsetLock(t)
    \/ \E t \in Threads : Kernel(t)
SpecStep == InitStep /\ [][NextStep]_vars

\* ====================================================================
\* internal::unmlq (src/src/internal/internal_unmlq.cc)
\* ====================================================================
\* -------------------------------------------------- matrices of numbers
\* scalar_t is modelled by the integers (a real type: conjugation leaves an
\* element as it is).  An m-by-n matrix with elements f(r, c), r and c from 1.
Mat(m, n, f(_, _)) ==
    [m |-> m, n |-> n, a |-> [rc \in (1 .. m) \X (1 .. n) |-> f(rc[1], rc[2])]]

\* f(1) + ... + f(n).
SumTo(n, f(_)) ==
    LET S[k \in 0 .. n] == IF k = 0 THEN 0 ELSE S[k - 1] + f(k)
    IN  S[n]

\* The product A B.
MatMul(A, B) ==
    Mat(A.m, B.n, LAMBDA r, c : SumTo(A.n, LAMBDA k : A.a[<<r, k>>] * B.a[<<k, c>>]))

\* alpha A + beta B.
MatAdd(alpha, A, beta, B) ==
    Mat(B.m, B.n, LAMBDA r, c : alpha * A.a[<<r, c>>] + beta * B.a[<<r, c>>])

\* conj_transpose of a view: the conjugate transpose A^H.
conj_transpose(A) == Mat(A.n, A.m, LAMBDA r, c : A.a[<<c, r>>])

\* TriangularMatrix(Uplo::Upper, diag, A): the elements above the diagonal are
\* those of A, the elements below are zero, and the diagonal is 1 when diag is
\* "Unit" and that of A when it is "NonUnit".
TriangularMatrix(diag, A) ==
    Mat(A.m, A.n, LAMBDA r, c :
        IF r > c THEN 0
        ELSE IF r = c /\ diag = "Unit" THEN 1
        ELSE A.a[<<r, c>>])

\* ------------------------------------------------------- tiles and views
\* The offset of tile k: the sum of the first k tile sizes.
offset(sizes, k) == SumTo(k, LAMBDA x : sizes[x])

\* The tile that holds element e (from 1) along a dimension of these tile sizes.
tile_of(sizes, e) ==
    CHOOSE k \in 0 .. Len(sizes) - 1 : offset(sizes, k) < e /\ e <= offset(sizes, k + 1)

\* The tile widths of V: V's tile columns face the tile rows of C on the left
\* and the tile columns of C on the right.
V_tileNb == IF side = "Left" THEN C.tileMb ELSE C.tileNb

\* Tile heights and tile widths of the four operands.  W has the tile sizes of
\* C; every tile of T is square with the height of V's tile row.
tile_heights(name) ==
    CASE name = "C" -> C.tileMb
      [] name = "W" -> C.tileMb
      [] name = "V" -> [k \in 1 .. V.mt |-> V.tileMb]
      [] name = "T" -> [k \in 1 .. T.mt |-> V.tileMb]

tile_widths(name) ==
    CASE name = "C" -> C.tileNb
      [] name = "W" -> C.tileNb
      [] name = "V" -> V_tileNb
      [] name = "T" -> [k \in 1 .. T.nt |-> V.tileMb]

\* Matrix::m() and Matrix::n(): the number of element rows and columns.
num_rows(name) == offset(tile_heights(name), Len(tile_heights(name)))
num_cols(name) == offset(tile_widths(name), Len(tile_widths(name)))

\* The elements of an operand.
elements(name) ==
    CASE name = "C" -> C.val
      [] name = "W" -> W.val
      [] name = "V" -> V.val
      [] name = "T" -> T.val

\* A view is a range of element rows r1..r2 and columns c1..c2 of an operand.
whole(name) ==
    [mat |-> name, r1 |-> 1, r2 |-> num_rows(name), c1 |-> 1, c2 |-> num_cols(name)]

view_m(v) == v.r2 - v.r1 + 1
view_n(v) == v.c2 - v.c1 + 1

\* Matrix::sub(i1, i2, j1, j2) of a view that starts at a tile boundary:
\* tile rows i1..i2 and tile columns j1..j2, counted from 0.  The view keeps
\* the row and column range it already has (V after its slice to nb rows).
sub(v, i1, i2, j1, j2) ==
    [mat |-> v.mat,
     r1 |-> v.r1 + offset(tile_heights(v.mat), i1),
     r2 |-> Min(v.r2, v.r1 - 1 + offset(tile_heights(v.mat), i2 + 1)),
     c1 |-> v.c1 + offset(tile_widths(v.mat), j1),
     c2 |-> Min(v.c2, v.c1 - 1 + offset(tile_widths(v.mat), j2 + 1))]

\* Matrix::slice(row1, row2, col1, col2): element rows and columns of the view,
\* counted from 0.
view_slice(v, row1, row2, col1, col2) ==
    [mat |-> v.mat,
     r1 |-> v.r1 + row1, r2 |-> v.r1 + row2,
     c1 |-> v.c1 + col1, c2 |-> v.c1 + col2]

\* The elements of a view as a matrix.
Get(v) ==
    Mat(view_m(v), view_n(v),
        LAMBDA r, c : elements(v.mat)[<<v.r1 + r - 1, v.c1 + c - 1>>])

\* C.tileIsLocal(i, j); W has the distribution of C.
tileIsLocal(ti, tj) == <<ti, tj>> \in C.local

\* The tile of C or W that holds element rc is local.
elementIsLocal(rc) ==
    tileIsLocal(tile_of(C.tileMb, rc[1]), tile_of(C.tileNb, rc[2]))

\* The elements of the operand of view v after a kernel has written X to the
\* view: a kernel writes the local tiles of its output and no other tile.
Put(v, X) ==
    [rc \in DOMAIN elements(v.mat) |->
        IF /\ v.r1 <= rc[1] /\ rc[1] <= v.r2
           /\ v.c1 <= rc[2] /\ rc[2] <= v.c2
           /\ elementIsLocal(rc)
        THEN X.a[<<rc[1] - v.r1 + 1, rc[2] - v.c1 + 1>>]
        ELSE elements(v.mat)[rc]]

\* ------------------------------------------------- unmlq: the local views
\* first = row_indices[0] (left) or col_indices[0] (right).
first == indices[1]

\* V.sub(0, 0, first, first) as taken first, and its tile sizes
\* mb = V0.tileMb(0), nb = V0.tileNb(0).
V0_tile == sub(whole("V"), 0, 0, first, first)
V0_tileMb == view_m(V0_tile)
nb == view_n(V0_tile)

\* if (mb > nb): the tile is tall.
tall == V0_tileMb > nb

\* mb after the tall correction  mb = nb.
mb == IF tall THEN nb ELSE V0_tileMb

\* Variant of V_sliced: V keeps all its rows when the tile is tall.
V_unsliced == whole("V")

\* V after  V = V.slice(0, nb-1, 0, V.n()-1)  when the tile is tall.
V_sliced ==
    IF tall THEN view_slice(whole("V"), 0, nb - 1, 0, num_cols("V") - 1)
            ELSE whole("V")

\* Variant of trapezoid: the test looks at the tile as it was before the tall
\* correction and takes every tile that is not square.
trapezoid_uncorrected == V0_tileMb # nb

\* bool trapezoid = (mb < nb).
trapezoid == mb < nb

\* V0 before the trapezoid split: V.sub(0, 0, first, first) of the sliced V.
V0_whole == sub(V_sliced, 0, 0, first, first)

\* Variant of V0b: the slice starts one column early.
V0b_shifted == view_slice(V0_whole, 0, mb - 1, mb - 1, nb - 2)

\* V0b = V0.slice(0, mb-1, mb, nb-1): the last nb - mb columns.
V0b == view_slice(V0_whole, 0, mb - 1, mb, nb - 1)

\* V0: the first mb columns when the tile is a trapezoid.
V0 == IF trapezoid THEN view_slice(V0_whole, 0, mb - 1, 0, mb - 1) ELSE V0_whole

\* V.sub(0, 0, j1, j2) of the sliced V.
V_sub(j1, j2) == sub(V_sliced, 0, 0, j1, j2)

\* T0 = T.sub(0, 0, first, first) sliced to min(mb, nb), and to mb when the
\* tile is a trapezoid.
T0_min ==
    view_slice(sub(whole("T"), 0, 0, first, first),
               0, Min(V0_tileMb, nb) - 1, 0, Min(V0_tileMb, nb) - 1)
T0 == IF trapezoid THEN view_slice(T0_min, 0, mb - 1, 0, mb - 1) ELSE T0_min

\* Variant of first_block: the block row (column) 0 instead of `first`.
first_block_zero(name) ==
    IF side = "Left" THEN sub(whole(name), 0, 0, 0, C.nt - 1)
                     ELSE sub(whole(name), 0, C.mt - 1, 0, 0)

\* The block row (left) or block column (right) `first` of C or W.
first_block(name) ==
    IF side = "Left" THEN sub(whole(name), first, first, 0, C.nt - 1)
                     ELSE sub(whole(name), 0, C.mt - 1, first, first)

\* The first mb rows (left) or columns (right) of a block.
leading(v) ==
    IF side = "Left" THEN view_slice(v, 0, mb - 1, 0, view_n(v) - 1)
                     ELSE view_slice(v, 0, view_m(v) - 1, 0, mb - 1)

\* The last nb - mb rows (left) or columns (right) of a block.
trailing(v) ==
    IF side = "Left" THEN view_slice(v, mb, nb - 1, 0, view_n(v) - 1)
                     ELSE view_slice(v, 0, view_m(v) - 1, mb, nb - 1)

\* C0, C0b and Wr (Wc on the right) as the kernels receive them.
C0 == IF trapezoid THEN leading(first_block("C")) ELSE first_block("C")
C0b == trailing(first_block("C"))
Wr == IF trapezoid THEN leading(first_block("W")) ELSE first_block("W")

\* The block row (left) or block column (right) k of C, and the blocks k..last.
C_block(k) ==
    IF side = "Left" THEN sub(whole("C"), k, k, 0, C.nt - 1)
                     ELSE sub(whole("C"), 0, C.mt - 1, k, k)
\* Variant of C_blocks_from: the block k alone.
C_blocks_from_only(k) == C_block(k)

\* C.sub(row_indices[1], mt-1, 0, nt-1), C.sub(0, mt-1, col_indices[1], nt-1).
C_blocks_from(k) ==
    IF side = "Left" THEN sub(whole("C"), k, C.mt - 1, 0, C.nt - 1)
                     ELSE sub(whole("C"), 0, C.mt - 1, k, C.nt - 1)

\* V0tr = TriangularMatrix(Uplo::Upper, Diag::Unit, V0).
V0tr == TriangularMatrix("Unit", Get(V0))

\* Variant of T0tr: op is not applied to T0.
T0tr_op_ignored == TriangularMatrix("NonUnit", Get(T0))

\* Variant of T0tr: T0 is conjugate transposed unless op is ConjTrans.
T0tr_unless_conjtrans ==
    IF op # "ConjTrans" THEN conj_transpose(TriangularMatrix("NonUnit", Get(T0)))
                        ELSE TriangularMatrix("NonUnit", Get(T0))

\* T0tr = TriangularMatrix(Uplo::Upper, Diag::NonUnit, T0), conjugate
\* transposed when op is NoTrans.
T0tr ==
    IF op = "NoTrans" THEN conj_transpose(TriangularMatrix("NonUnit", Get(T0)))
                      ELSE TriangularMatrix("NonUnit", Get(T0))

\* The tiles of C or W that a view of it covers.
view_tiles(v) ==
    { ij \in (0 .. C.mt - 1) \X (0 .. C.nt - 1) :
        /\ offset(C.tileMb, ij[1]) + 1 <= v.r2 /\ v.r1 <= offset(C.tileMb, ij[1] + 1)
        /\ offset(C.tileNb, ij[2]) + 1 <= v.c2 /\ v.c1 <= offset(C.tileNb, ij[2] + 1) }

\* The local tiles among those a view covers.
local_tiles(v) == { ij \in view_tiles(v) : tileIsLocal(ij[1], ij[2]) }

\* Variant of has_local: every row (column) counts as holding a local tile.
has_local_always(k) == TRUE

\* The rows (left) or columns (right) of C that hold a local tile, in
\* increasing order: row_indices / col_indices.
has_local(k) ==
    IF side = "Left" THEN \E j \in 0 .. C.nt - 1 : tileIsLocal(k, j)
                     ELSE \E r \in 0 .. C.mt - 1 : tileIsLocal(r, k)

RECURSIVE build_indices(_, _)
build_indices(k, last) ==
    IF k > last THEN << >>
    ELSE IF has_local(k) THEN <<k>> \o build_indices(k + 1, last)
    ELSE build_indices(k + 1, last)

row_indices == build_indices(0, (IF side = "Left" THEN C.mt ELSE C.nt) - 1)

\* --------------------------------------------------- unmlq: control flow
\* Variant of after: the multiply by op(T0) is issued before the loop over the
\* further local blocks.
after_t0_before_blocks(l) ==
    CASE l = "insert" -> "views"
      [] l = "views" -> "copy"
      [] l = "copy" -> "trmm_v0"
      [] l = "trmm_v0" -> "gemm_v0b"
      [] l = "gemm_v0b" -> "trmm_t0"
      [] l = "trmm_t0" -> "gemm_v1"
      [] l = "gemm_v1" -> "gemm_c1"
      [] l = "gemm_c1" -> "gemm_c0b"
      [] l = "gemm_c0b" -> "trmm_v0h"
      [] l = "trmm_v0h" -> "geadd"
      [] l = "geadd" -> "erase"
      [] l = "erase" -> "taskwait"
      [] l = "taskwait" -> "returned"

\* The statement that follows statement l in the body of unmlq.
after(l) ==
    CASE l = "insert" -> "views"
      [] l = "views" -> "copy"
      [] l = "copy" -> "trmm_v0"
      [] l = "trmm_v0" -> "gemm_v0b"
      [] l = "gemm_v0b" -> "gemm_v1"
      [] l = "gemm_v1" -> "trmm_t0"
      [] l = "trmm_t0" -> "gemm_c1"
      [] l = "gemm_c1" -> "gemm_c0b"
      [] l = "gemm_c0b" -> "trmm_v0h"
      [] l = "trmm_v0h" -> "geadd"
      [] l = "geadd" -> "erase"
      [] l = "erase" -> "taskwait"
      [] l = "taskwait" -> "returned"

\* The assertions at the head of unmlq and of its two branches.
asserts_hold ==
    /\ C.mt >= 1
    /\ C.nt >= 1
    /\ V.mt = 1
    /\ W.mt = C.mt
    /\ W.nt = C.nt
    /\ IF side = "Left" THEN V.nt = C.mt ELSE V.nt = C.nt

\* A kernel call: its tasks are issued; they finish later, in any order.
Issue(kc) ==
    /\ issued' = Append(issued, kc)
    /\ pending' = pending + 1

\* The record of a kernel call: the kernel, its target and its operands.
\* blocks: for the gemms over the further local blocks, the rows (columns) of
\* C they reach.
call_on(kernel, tgt, a, b, c, blocks) ==
    [kernel |-> kernel, target |-> tgt, a |-> a, b |-> b, c |-> c, blocks |-> blocks]

\* The record of a kernel call on the first local block.
call(kernel, tgt, a, b, c) == call_on(kernel, tgt, a, b, c, {})

\* Entry of unmlq: the assertions, then the list of local rows or columns and
\* the return when it is empty.
Enter ==
    /\ upc = "entry"
    /\ IF ~asserts_hold
       THEN /\ upc' = "assert_failed"
            /\ UNCHANGED indices
       ELSE /\ indices' = row_indices
            /\ upc' = IF Len(row_indices) < 1 THEN "returned" ELSE "insert"
    /\ UNCHANGED <<side, op, target, V, T, C, W, loop_i, issued, pending, applied>>
    /\ UNCHANGED <<hb2td_vars, cfg>>

\* Wr = W.sub(first, first, 0, nt-1) (Wc on the right); Wr.insertLocalTiles().
InsertLocalTiles ==
    /\ upc = "insert"
    /\ W' = [W EXCEPT !.tiles = @ \cup local_tiles(first_block("W"))]
    /\ upc' = after("insert")
    /\ UNCHANGED <<side, op, target, V, T, C, indices, loop_i, issued, pending, applied>>
    /\ UNCHANGED <<hb2td_vars, cfg>>

\* The views V0, T0, C0 are taken, C0.tileGetAllForWriting fetches the local
\* tiles of C's block `first` to the host, and the tall and trapezoid slices
\* are made.
Views ==
    /\ upc = "views"
    /\ C' = [C EXCEPT !.host = @ \cup local_tiles(first_block("C"))]
    /\ loop_i' = 1
    /\ upc' = after("views")
    /\ UNCHANGED <<side, op, target, V, T, W, indices, issued, pending, applied>>
    /\ UNCHANGED <<hb2td_vars, cfg>>

\* internal::copy(C0, Wr).
Copy ==
    /\ upc = "copy"
    /\ W' = [W EXCEPT !.val = Put(Wr, Get(C0))]
    /\ Issue(call("copy", "HostTask", "C0", "", "W"))
    /\ upc' = after("copy")
    /\ UNCHANGED <<side, op, target, V, T, C, indices, loop_i, applied>>
    /\ UNCHANGED <<hb2td_vars, cfg>>

\* internal::trmm: W <- V0 W (left), W <- W V0^H (right).
TrmmV0 ==
    /\ upc = "trmm_v0"
    /\ W' = [W EXCEPT !.val =
                Put(Wr, IF side = "Left"
                        THEN MatMul(V0tr, Get(Wr))
                        ELSE MatMul(Get(Wr), conj_transpose(V0tr)))]
    /\ Issue(call("trmm", "HostTask", IF side = "Left" THEN "V0" ELSE "V0^H", "", "W"))
    /\ upc' = after("trmm_v0")
    /\ UNCHANGED <<side, op, target, V, T, C, indices, loop_i, applied>>
    /\ UNCHANGED <<hb2td_vars, cfg>>

\* if (trapezoid) internal::gemm: W <- V0b C0b + W (left),
\* W <- C0b V0b^H + W (right).
GemmV0b ==
    /\ upc = "gemm_v0b"
    /\ IF trapezoid
       THEN /\ W' = [W EXCEPT !.val =
                       Put(Wr, MatAdd(1, IF side = "Left"
                                         THEN MatMul(Get(V0b), Get(C0b))
                                         ELSE MatMul(Get(C0b), conj_transpose(Get(V0b))),
                                      1, Get(Wr)))]
            /\ Issue(IF side = "Left" THEN call("gemm", "HostTask", "V0b", "C0b", "W")
                                      ELSE call("gemm", "HostTask", "C0b", "V0b^H", "W"))
       ELSE UNCHANGED <<W, issued, pending>>
    /\ upc' = after("gemm_v0b")
    /\ UNCHANGED <<side, op, target, V, T, C, indices, loop_i, applied>>
    /\ UNCHANGED <<hb2td_vars, cfg>>

\* Variant of held_tiles: nothing is held.
held_tiles_none(row) == {}

\* The tiles Ci.tileGetAndHoldAllOnDevices holds: the local tiles of Ci, and
\* only under target == Target::Devices.
held_tiles(row) == IF target = "Devices" THEN local_tiles(C_block(row)) ELSE {}

\* The rows (left) or columns (right) of C in which a kernel reaches a local
\* tile of view v.
blocks_of(v) == { IF side = "Left" THEN ij[1] ELSE ij[2] : ij \in local_tiles(v) }

\* Head of a turn of the loop over the further local blocks: the loop test,
\* Ci = C.sub(row, row, 0, nt-1) and, when target is Devices, the hold of Ci's
\* tiles on the devices; or the end of the loop.
HoldCi ==
    /\ upc = "gemm_v1"
    /\ IF loop_i < Len(indices)
       THEN /\ C' = [C EXCEPT !.held = @ \cup held_tiles(indices[loop_i + 1])]
            /\ upc' = "gemm_v1_call"
       ELSE /\ upc' = after("gemm_v1")
            /\ UNCHANGED C
    /\ UNCHANGED <<side, op, target, V, T, W, indices, loop_i, issued, pending, applied>>
    /\ UNCHANGED <<hb2td_vars, cfg>>

\* Rest of the turn: internal::gemm<target>: W <- V1 C1 + W (left),
\* W <- C1 V1^H + W (right), and ++i.
GemmV1 ==
    /\ upc = "gemm_v1_call"
    /\ LET row == indices[loop_i + 1]
       IN  /\ W' = [W EXCEPT !.val =
                      Put(Wr, MatAdd(1, IF side = "Left"
                                        THEN MatMul(Get(V_sub(row, row)), Get(C_block(row)))
                                        ELSE MatMul(Get(C_block(row)),
                                                    conj_transpose(Get(V_sub(row, row)))),
                                     1, Get(Wr)))]
           /\ Issue(IF side = "Left"
                    THEN call_on("gemm", target, "V1", "C1", "W", blocks_of(C_block(row)))
                    ELSE call_on("gemm", target, "C1", "V1^H", "W", blocks_of(C_block(row))))
    /\ loop_i' = loop_i + 1
    /\ upc' = "gemm_v1"
    /\ UNCHANGED <<side, op, target, V, T, C, indices, applied>>
    /\ UNCHANGED <<hb2td_vars, cfg>>

\* internal::trmm: W <- op(T0) W (left), W <- W op(T0) (right).
TrmmT0 ==
    /\ upc = "trmm_t0"
    /\ W' = [W EXCEPT !.val =
                Put(Wr, IF side = "Left"
                        THEN MatMul(T0tr, Get(Wr))
                        ELSE MatMul(Get(Wr), T0tr))]
    /\ Issue(call("trmm", "HostTask", "T0", "", "W"))
    /\ upc' = after("trmm_t0")
    /\ UNCHANGED <<side, op, target, V, T, C, indices, loop_i, applied>>
    /\ UNCHANGED <<hb2td_vars, cfg>>

\* if (row_indices.size() > 1) internal::gemm<target>: C1 <- C1 - V1^H W
\* (left), C1 <- C1 - W V1 (right), on the blocks row_indices[1] .. last.
GemmC1 ==
    /\ upc = "gemm_c1"
    /\ IF Len(indices) > 1
       THEN LET k == indices[2]
                last == (IF side = "Left" THEN C.mt ELSE C.nt) - 1
            IN  /\ C' = [C EXCEPT !.val =
                           Put(C_blocks_from(k),
                               MatAdd(-1, IF side = "Left"
                                          THEN MatMul(conj_transpose(Get(V_sub(k, last))),
                                                      Get(Wr))
                                          ELSE MatMul(Get(Wr), Get(V_sub(k, last))),
                                      1, Get(C_blocks_from(k))))]
                /\ Issue(IF side = "Left"
                         THEN call_on("gemm", target, "V1^H", "W", "C1",
                                      blocks_of(C_blocks_from(k)))
                         ELSE call_on("gemm", target, "W", "V1", "C1",
                                      blocks_of(C_blocks_from(k))))
       ELSE UNCHANGED <<C, issued, pending>>
    /\ upc' = after("gemm_c1")
    /\ UNCHANGED <<side, op, target, V, T, W, indices, loop_i, applied>>
    /\ UNCHANGED <<hb2td_vars, cfg>>

\* if (trapezoid) internal::gemm: C0b <- C0b - V0b^H W (left),
\* C0b <- C0b - W V0b (right).
GemmC0b ==
    /\ upc = "gemm_c0b"
    /\ IF trapezoid
       THEN /\ C' = [C EXCEPT !.val =
                       Put(C0b, MatAdd(-1, IF side = "Left"
                                           THEN MatMul(conj_transpose(Get(V0b)), Get(Wr))
                                           ELSE MatMul(Get(Wr), Get(V0b)),
                                       1, Get(C0b)))]
            /\ Issue(IF side = "Left" THEN call("gemm", "HostTask", "V0b^H", "W", "C0b")
                                      ELSE call("gemm", "HostTask", "W", "V0b", "C0b"))
       ELSE UNCHANGED <<C, issued, pending>>
    /\ upc' = after("gemm_c0b")
    /\ UNCHANGED <<side, op, target, V, T, W, indices, loop_i, applied>>
    /\ UNCHANGED <<hb2td_vars, cfg>>

\* internal::trmm: W <- V0^H W (left), W <- W V0 (right).
TrmmV0H ==
    /\ upc = "trmm_v0h"
    /\ W' = [W EXCEPT !.val =
                Put(Wr, IF side = "Left"
                        THEN MatMul(conj_transpose(V0tr), Get(Wr))
                        ELSE MatMul(Get(Wr), V0tr))]
    /\ Issue(call("trmm", "HostTask", IF side = "Left" THEN "V0^H" ELSE "V0", "", "W"))
    /\ upc' = after("trmm_v0h")
    /\ UNCHANGED <<side, op, target, V, T, C, indices, loop_i, applied>>
    /\ UNCHANGED <<hb2td_vars, cfg>>

\* internal::geadd: C0 <- C0 - W.
Geadd ==
    /\ upc = "geadd"
    /\ C' = [C EXCEPT !.val = Put(C0, MatAdd(-1, Get(Wr), 1, Get(C0)))]
    /\ Issue(call("geadd", "HostTask", "W", "", "C0"))
    /\ upc' = after("geadd")
    /\ UNCHANGED <<side, op, target, V, T, W, indices, loop_i, applied>>
    /\ UNCHANGED <<hb2td_vars, cfg>>

\* Variant of erased_tiles: the loop runs over the tile rows of Wr (tile
\* columns of Wc) instead of its tile columns (rows), and so meets tile 0 only.
erased_tiles_first_only ==
    { ij \in local_tiles(Wr) : IF side = "Left" THEN ij[2] < 1 ELSE ij[1] < 1 }

\* The tiles the final loop erases: the local tiles of Wr (Wc).
erased_tiles == local_tiles(Wr)

\* free workspace: Wr.tileErase(0, j) for every local tile of Wr.  The
\* elements of an erased tile are gone (0 stands for no value).
EraseW ==
    /\ upc = "erase"
    /\ W' = [W EXCEPT !.tiles = @ \ erased_tiles,
                      !.val = [rc \in DOMAIN @ |-> 0]]
    /\ upc' = after("erase")
    /\ UNCHANGED <<side, op, target, V, T, C, indices, loop_i, issued, pending, applied>>
    /\ UNCHANGED <<hb2td_vars, cfg>>

\* Variant of taskwait_over: the barrier lets the call return at once.
taskwait_over_at_once == TRUE

\* #pragma omp taskwait is over: no task of the call is unfinished.
taskwait_over == pending = 0

\* #pragma omp taskwait, then the return.
TaskWait ==
    /\ upc = "taskwait"
    /\ taskwait_over
    /\ upc' = after("taskwait")
    /\ UNCHANGED <<side, op, target, V, T, C, W, indices, loop_i, issued, pending, applied>>
    /\ UNCHANGED <<hb2td_vars, cfg>>

\* The tasks of one kernel call have all finished.
Retire ==
    /\ pending > 0
    /\ pending' = pending - 1
    /\ UNCHANGED <<side, op, target, V, T, C, W, upc, indices, loop_i, issued, applied>>
    /\ UNCHANGED <<hb2td_vars, cfg>>

\* ------------------------------------------------------- unmlq: the caller
\* The op of the inverse transformation.
inverse_op(o) == IF o = "NoTrans" THEN "ConjTrans" ELSE "NoTrans"

\* The caller chains the next call on the same operands: unmlq returns and is
\* called again with the inverse op, at most MaxCalls calls in all.
Chain ==
    /\ upc = "returned"
    /\ Len(applied.ops) < MaxCalls
    /\ op' = inverse_op(op)
    /\ applied' = [applied EXCEPT !.ops = Append(@, inverse_op(op)),
                                  !.C_entry = C.val]
    /\ upc' = "entry"
    /\ indices' = << >>
    /\ loop_i' = 0
    /\ issued' = << >>
    /\ UNCHANGED <<side, target, V, T, C, W, pending>>
    /\ UNCHANGED <<hb2td_vars, cfg>>

\* ------------------------------------------------------- unmlq: operands
\* hb2td is not running: it has returned from a matrix of order 2.
NoHb2td ==
    /\ band = 2
    /\ diag_len = 2
    /\ thread_size = 1
    /\ pass_size = 1
    /\ progress = [k \in Sweeps |-> -1]
    /\ reflectors = {}
    /\ lock = 0
    /\ pc = [t \in Threads |-> "done"]
    /\ pass = [t \in Threads |-> 0]
    /\ step = [t \in Threads |-> 0]
    /\ sweep = [t \in Threads |-> 0]
    /\ start_thread = [t \in Threads |-> 0]
    /\ calls = [ks \in {} |-> 0]
    /\ opts = "absent"
    /\ team = thread_size

\* The smallest element of a non-empty set of numbers.
SetMin(S) == CHOOSE x \in S : \A y \in S : x <= y

\* The places of V that hold Householder data, for tile widths gs, local
\* blocks lg and tile height h: in the tile of the first local block the
\* places right of the diagonal, in every later local block all places, each
\* in the first min(h, width of the first tile) rows.  The other places of V
\* hold other data (the factor L, or nothing this rank uses).
householder_places(gs, lg, h) ==
    IF lg = {} THEN {}
    ELSE LET f == SetMin(lg)
         IN  { rc \in (1 .. h) \X (1 .. offset(gs, Len(gs))) :
                 /\ tile_of(gs, rc[2]) \in lg
                 /\ rc[1] <= Min(h, gs[f + 1])
                 /\ tile_of(gs, rc[2]) = f => rc[2] - offset(gs, f) > rc[1] }

\* The reflector rows as a matrix, for Householder data fv: unit diagonal and
\* zeros below it in the first local tile, zeros in the blocks that are not
\* local.
reflectors_of(gs, lg, h, fv) ==
    LET f == SetMin(lg)
    IN  Mat(Min(h, gs[f + 1]), offset(gs, Len(gs)),
            LAMBDA r, c :
                IF <<r, c>> \in DOMAIN fv THEN fv[<<r, c>>]
                ELSE IF tile_of(gs, c) = f /\ c - offset(gs, f) = r THEN 1
                ELSE 0)

\* The places of tile T(0, first) that unmlq reads: the upper triangle of its
\* leading min(h, width of the first local tile) rows and columns.  The other
\* places of T hold other data.
coupling_places(gs, lg, h) ==
    IF lg = {} THEN {}
    ELSE LET k == Min(h, gs[SetMin(lg) + 1])
         IN  { rc \in (1 .. k) \X (1 .. k) : rc[1] <= rc[2] }

\* The upper triangle tf of k rows as a matrix.
coupling_of(k, tf) ==
    Mat(k, k, LAMBDA r, c : IF r <= c THEN tf[<<r, c>>] ELSE 0)

\* (Vm, Tm) is a compact-WY pair: Tm has a non-zero diagonal and
\* Tm + Tm^H = Tm^H (Vm Vm^H) Tm, which makes I - Vm^H Tm Vm unitary.
compact_wy(Vm, Tm) ==
    /\ \A r \in 1 .. Tm.m : Tm.a[<<r, r>>] # 0
    /\ MatAdd(1, Tm, 1, conj_transpose(Tm)).a
         = MatMul(conj_transpose(Tm), MatMul(MatMul(Vm, conj_transpose(Vm)), Tm)).a

\* The unit matrix with its one in place k of the governed dimension (rows on
\* the left, columns on the right), or the matrix of zeros for k = 0.
unit_operands(m, n) ==
    { [rc \in (1 .. m) \X (1 .. n) |->
          IF (IF side = "Left" THEN rc[1] ELSE rc[2]) = k THEN 1 ELSE 0] :
      k \in 1 .. (IF side = "Left" THEN m ELSE n) }

\* The tile sizes of a dimension of g tiles: s, and l for the last tile.
tile_sizes(g, s, l) == [k \in 1 .. g |-> IF k < g THEN s ELSE l]

\* The tile indices 0..g-1 that a process at coordinate r of p owns under a
\* block-cyclic map.
cyclic(g, p, r) == { k \in 0 .. g - 1 : k % p = r }

\* A call of unmlq is entered.  side, op and target come from the given sets.
\* C has g tile rows on the left (tile columns on the right) facing V, of size
\* s from `sizes` with a last tile of size l <= s, and o tile columns (rows) of
\* width 1; the local tiles are those of a 2D block-cyclic map on a process
\* grid with dimensions from `grids`.  V, W and T have the extents unmlq
\* asserts, but for one of them that is one more when e from `extras` is not
\* 0: 1 the tile rows of W, 2 the tile columns of W, 3 the tile rows of V,
\* 4 the tile columns of V and T, 5 the tile rows of T.  The Householder data
\* of V comes from vvals and the triangle of T that unmlq reads from tvals,
\* other data being 3; with wy set, (V, T) is a compact-WY pair; C is a unit
\* matrix when units is set and 1 everywhere otherwise; W has no tile.
InitUnmlq(sides, ops, targets, gcounts, ocounts, sizes, grids, extras, vvals, tvals, wy, units) ==
    /\ NoHb2td
    /\ NoConfig
    /\ side \in sides
    /\ op \in ops
    /\ target \in targets
    /\ \E g \in gcounts, o \in ocounts, h \in sizes, s \in sizes, p \in grids, q \in grids :
         \E l \in 1 .. s, pr \in 0 .. p - 1, qr \in 0 .. q - 1 :
           LET gs == tile_sizes(g, s, l)
               os == tile_sizes(o, 1, 1)
               lg == cyclic(g, p, pr)
               lo == cyclic(o, q, qr)
               cmt == IF side = "Left" THEN g ELSE o
               cnt == IF side = "Left" THEN o ELSE g
               cm == IF side = "Left" THEN offset(gs, g) ELSE o
               cn == IF side = "Left" THEN o ELSE offset(gs, g)
               lgo == IF lo = {} THEN {} ELSE lg
           IN  \E fv \in [householder_places(gs, lgo, h) -> vvals],
                  tf \in [coupling_places(gs, lgo, h) -> tvals] :
                 /\ (wy /\ lgo # {}) =>
                        compact_wy(reflectors_of(gs, lgo, h, fv),
                                   coupling_of(Min(h, gs[SetMin(lgo) + 1]), tf))
                 /\ \E cv \in (IF units THEN unit_operands(cm, cn)
                                        ELSE { [rc \in (1 .. cm) \X (1 .. cn) |-> 1] }),
                       e \in extras :
                      LET x(k) == IF e = k THEN 1 ELSE 0
                      IN  /\ C = [mt |-> cmt, nt |-> cnt,
                                  tileMb |-> IF side = "Left" THEN gs ELSE os,
                                  tileNb |-> IF side = "Left" THEN os ELSE gs,
                                  local |-> IF side = "Left" THEN lg \X lo ELSE lo \X lg,
                                  val |-> cv, host |-> {}, held |-> {}]
                          /\ W = [mt |-> cmt + x(1), nt |-> cnt + x(2), tiles |-> {},
                                  val |-> [rc \in (1 .. cm) \X (1 .. cn) |-> 0]]
                          /\ V = [mt |-> 1 + x(3), nt |-> g + x(4), tileMb |-> h,
                                  val |-> [rc \in (1 .. h) \X (1 .. offset(gs, g)) |->
                                              IF rc \in DOMAIN fv THEN fv[rc] ELSE 3]]
                          /\ T = [mt |-> 1 + x(5), nt |-> g + x(4),
                                  val |-> [rc \in (1 .. h * (1 + x(5))) \X (1 .. h * (g + x(4))) |->
                                              LET c == rc[2] - h * SetMin(lgo \cup {g})
                                              IN  IF <<rc[1], c>> \in DOMAIN tf
                                                  THEN tf[<<rc[1], c>>] ELSE 3]]
                          /\ applied = [ops |-> <<op>>, C_first |-> cv, C_entry |-> cv]
    /\ upc = "entry"
    /\ indices = << >>
    /\ loop_i = 0
    /\ issued = << >>
    /\ pending = 0

\* unmlq called once, on either side and with either target, on operands of
\* any extents.
InitTiles ==
    InitUnmlq({"Left", "Right"}, {"NoTrans", "ConjTrans"}, {"HostTask", "HostNest", "HostBatch", "Devices"},
              0 .. MaxTiles, 0 .. 2, 1 .. MaxTileSize, 1 .. 2, 0 .. 5,
              {1}, {1}, FALSE, FALSE)

NextUnmlq ==
    \/ Enter
    \/ InsertLocalTiles
    \/ Views
    \/ Copy
    \/ TrmmV0
    \/ GemmV0b
    \/ HoldCi
    \/ GemmV1
    \/ TrmmT0
    \/ GemmC1
    \/ GemmC0b
    \/ TrmmV0H
    \/ Geadd
    \/ EraseW
    \/ TaskWait
    \/ Retire

SpecUnmlq == InitTiles /\ [][NextUnmlq]_vars

\* unmlq called from the left with NoTrans on a compact-WY pair (V, T) and a
\* unit matrix C, on operands of the extents it requires.
InitRoundTrip ==
    InitUnmlq({"Left"}, {"NoTrans"}, {"HostTask", "Devices"},
              1 .. MaxTiles, {1}, 1 .. MaxTileSize, 1 .. 2, {0},
              {-1, 0, 1}, -2 .. 2, TRUE, TRUE)

\* The caller chains calls of unmlq.
NextChain ==
    \/ Enter
    \/ InsertLocalTiles
    \/ Views
    \/ Copy
    \/ TrmmV0
    \/ GemmV0b
    \/ HoldCi
    \/ GemmV1
    \/ TrmmT0
    \/ GemmC1
    \/ GemmC0b
    \/ TrmmV0H
    \/ Geadd
    \/ EraseW
    \/ TaskWait
    \/ Retire
    \/ Chain

SpecRoundTrip == InitRoundTrip /\ [][NextChain]_vars

\* unmlq called once, on either side and with any op, on any Householder
\* data in V, any T and a unit matrix C.
InitValues ==
    InitUnmlq({"Left", "Right"}, {"NoTrans", "Trans", "ConjTrans"}, {"HostTask"},
              1 .. MaxTiles, {1}, 1 .. MaxTileSize, 1 .. 2, {0},
              {1, 2}, {1, 2}, FALSE, TRUE)

SpecValues == InitValues /\ [][NextUnmlq]_vars

\* unmlq called once on a C of up to MaxBlocks tile rows (left) or tile columns
\* (right) of size 1, dealt to one, two or three processes in turn, so that
\* the local blocks may lie apart.
InitBlocks ==
    InitUnmlq({"Left", "Right"}, {"NoTrans"}, {"HostTask", "Devices"},
              1 .. MaxBlocks, {1}, {1}, 1 .. 3, {0}, {1}, {1}, FALSE, FALSE)
SpecBlocks == InitBlocks /\ [][NextUnmlq]_vars

\* A program that starts with any value of SLATE_GPU_AWARE_MPI, or none, and
\* reads, sets and re-reads the flag while the environment may change.
InitConfig ==
    /\ NoHb2td
    /\ NoUnmlq
    /\ \E env \in EnvValues : cfg = fresh(env)
NextConfig ==
    \/ Getter
    \/ \E val \in BOOLEAN : Setter(val)
    \/ \E v \in EnvValues : Setenv(v)
SpecConfig == InitConfig /\ [][NextConfig]_vars

\* ------------------------------------------------------- derived notions
\* Worker t is between the end of its waits and its progress store.
InStep(t) == pc[t] \in {"step", "lookup", "unlock", "kernel", "store"}

\* hb2td_step(k, s) has been called.
Called(k, s) == <<k, s>> \in DOMAIN calls

\* Some worker is executing step (k, s).
Running(k, s) == \E t \in Threads : InStep(t) /\ sweep[t] = k /\ step[t] = s

\* Step (k, s) has run and its worker has stored its progress.
Completed(k, s) == Called(k, s) /\ ~Running(k, s)

\* Every worker has returned from hb2td_run.
AllDone == \A t \in Threads : pc[t] = "done"

\* ------------------------------------------------------------------ C1
\* The steps of sweep k as the claims count them.
NSteps(k) == 2 * ceildiv(diag_len - 1 - k, band - 1) - 1

\* C1: a worker that has begun hb2td_step(k, s) with s >= 1 (it is between the
\* end of its waits and its progress store) finds step s-1 of sweep k called,
\* finished and recorded: progress[k] >= s-1.  A worker at step 0 passes the
\* intra-sweep wait whatever progress[k] holds.
IntraSweepDependency ==
    /\ \A t \in Threads :
          (InStep(t) /\ step[t] >= 1) =>
              /\ Completed(sweep[t], step[t] - 1)
              /\ progress[sweep[t]] >= step[t] - 1
    /\ \A t \in Threads : (pc[t] = "wait_self" /\ step[t] = 0) => ENABLED WaitSelf(t)

\* A worker is inside a step s >= 1 of a sweep, with more than one worker running.
IntraSweepWitness ==
    \E t \in Threads :
        /\ InStep(t) /\ step[t] >= 1 /\ thread_size >= 2
        /\ progress[sweep[t]] = step[t] - 1

\* ------------------------------------------------------------------ C2
\* C2: a worker that has begun hb2td_step(k, s) with k >= 1 finds sweep k-1 at
\* step min(s+2, NSteps(k-1)-1) or beyond, that step called and finished; and
\* whenever progress[k] = s >= 0, progress[k-1] >= min(s+2, NSteps(k-1)-1).
\* A worker of sweep 0 passes the cross-sweep wait at once.
CrossSweepDependency ==
    /\ \A t \in Threads :
          (InStep(t) /\ sweep[t] >= 1) =>
              LET d == Min(step[t] + 2, NSteps(sweep[t] - 1) - 1)
              IN  /\ Completed(sweep[t] - 1, d)
                  /\ progress[sweep[t] - 1] >= d
    /\ \A k \in Sweeps :
          (k >= 1 /\ progress[k] >= 0) =>
              progress[k - 1] >= Min(progress[k] + 2, NSteps(k - 1) - 1)
    /\ \A t \in Threads : (pc[t] = "wait_prev" /\ sweep[t] = 0) => ENABLED WaitPrev(t)

\* A worker runs step s of sweep k >= 1 while sweep k-1 is exactly two steps
\* ahead and not yet finished.
CrossSweepWitness ==
    \E t \in Threads :
        /\ InStep(t) /\ sweep[t] >= 1
        /\ progress[sweep[t] - 1] = step[t] + 2
        /\ step[t] + 2 < NSteps(sweep[t] - 1) - 1

\* ------------------------------------------------------------------ C3
\* The thread_size invocations of hb2td_run run as concurrent threads: each
\* has a thread of the team to itself.
Concurrent == team = thread_size

\* C3: with the invocations running as concurrent threads, scheduled fairly,
\* and pass_size = ceildiv(thread_size, 3), in no reachable state are all
\* unfinished workers blocked, and every worker returns from hb2td_run.
DeadlockFreedom ==
    /\ [](Concurrent => (AllDone \/ ENABLED Next))
    /\ <>(Concurrent => AllDone)

\* All of several workers have returned after a reduction of several sweeps.
DeadlockFreedomWitness ==
    /\ AllDone
    /\ Concurrent
    /\ thread_size >= 4
    /\ diag_len >= 6
    /\ \A k \in Sweeps : progress[k] >= 0

\* ------------------------------------------------------------------ C4
\* The (sweep, step) pairs the reduction consists of.
AllSteps == { ks \in (0 .. diag_len - 3) \X (0 .. 2 * diag_len) : ks[2] < NSteps(ks[1]) }

\* C4: no step is ever called twice and no pair outside AllSteps is ever
\* called; when every worker has returned, every pair of AllSteps has been
\* called exactly once and progress[k] = NSteps(k)-1 for every sweep k.
Completeness ==
    /\ DOMAIN calls \subseteq AllSteps
    /\ \A ks \in DOMAIN calls : calls[ks] = 1
    /\ AllDone =>
          /\ DOMAIN calls = AllSteps
          /\ \A k \in Sweeps : progress[k] = NSteps(k) - 1

\* hb2td has returned from a reduction in which a pass held two sweeps.
CompletenessWitness ==
    /\ AllDone
    /\ pass_size >= 2
    /\ diag_len >= 5
    /\ Cardinality(DOMAIN calls) >= 8

\* ------------------------------------------------------------------ C5
\* Two steps conflict when their slices of A share an element or when they look
\* up the same Reflector-Store key.
Conflict(p, q) ==
    \/ slice(p[1], p[2]) \cap slice(q[1], q[2]) # {}
    \/ lookup_keys(p[1], p[2]) \cap lookup_keys(q[1], q[2]) # {}

\* The order of the single-threaded run (thread_size = 1, pass_size = 1): sweep
\* after sweep, and within a sweep step after step.
SingleThreadedBefore(p, q) == p[1] < q[1] \/ (p[1] = q[1] /\ p[2] < q[2])

\* While a worker executes step p, every conflicting step that the
\* single-threaded run executes before p has finished, and every conflicting
\* step it executes after p has not been called.
OrderedLikeSingleThread ==
    \A t \in Threads :
        InStep(t) =>
            LET p == <<sweep[t], step[t]>>
            IN  \A q \in AllSteps :
                    (q # p /\ Conflict(p, q)) =>
                        IF SingleThreadedBefore(q, p)
                        THEN Completed(q[1], q[2])
                        ELSE ~Called(q[1], q[2])

\* C5: any two conflicting steps are executed in the same relative order in
\* every interleaving and for every thread_size, namely that of the
\* single-threaded run.
OrderDeterminism == OrderedLikeSingleThread

\* The same statement for band >= 3, where the steps that share a key are ordered.
OrderDeterminismWideBand == band >= 3 => OrderedLikeSingleThread

\* ------------------------------------------------------------------ C6
\* The pass sizes for which a pass never needs a step of its own worker's
\* later rows: 2*(pass_size-1) < thread_size.
SafePassSize == 2 * (pass_size - 1) < thread_size

\* The two dependency rules and the set of executed steps, as in C1, C2, C4.
SameStepsSameRules ==
    /\ IntraSweepDependency
    /\ CrossSweepDependency
    /\ Completeness

\* C6 as amended: for every thread_size and every pass_size with
\* 2*(pass_size-1) < thread_size, the workers running concurrently, no state
\* blocks every unfinished worker, every
\* worker returns, and the steps executed and the two dependency rules are
\* those of the run with pass_size = ceildiv(thread_size, 3).
PassSizeIndependence ==
    /\ []((SafePassSize /\ Concurrent) => (AllDone \/ ENABLED Next))
    /\ [](SafePassSize => SameStepsSameRules)
    /\ <>((SafePassSize /\ Concurrent) => AllDone)

\* A run with a pass size other than the one hb2td computes has returned.
PassSizeIndependenceWitness ==
    /\ AllDone
    /\ Concurrent
    /\ SafePassSize
    /\ pass_size # ceildiv(thread_size, 3)
    /\ diag_len >= 5

\* C6 as stated: the same for every pass_size >= 1.
AnyPassSizeTerminates ==
    /\ [](Concurrent => (AllDone \/ ENABLED Next))
    /\ [](SameStepsSameRules)
    /\ <>(Concurrent => AllDone)

\* ------------------------------------------------------------------ C7
\* The highest step of sweep k that has run and stored its progress, -1 if none.
HighestCompleted(k) ==
    LET S == { x \in 0 .. 2 * diag_len : Completed(k, x) }
    IN  IF S = {} THEN -1 ELSE CHOOSE x \in S : \A y \in S : y <= x

\* C7: every counter starts at -1; a step of the program leaves a counter
\* alone or raises it by exactly 1; a worker's store writes s over s-1; and at
\* any time progress[k] is the highest completed step of sweep k.
ProgressMonotone ==
    /\ \A k \in Sweeps : progress[k] = -1
    /\ [][\A k \in Sweeps :
             progress'[k] = progress[k] \/ progress'[k] = progress[k] + 1]_vars
    /\ [][\A t \in Threads :
             (pc[t] = "store" /\ pc'[t] # "store") =>
                 /\ progress[sweep[t]] = step[t] - 1
                 /\ progress'[sweep[t]] = step[t]]_vars
    /\ [](\A k \in Sweeps : progress[k] = HighestCompleted(k))

\* One sweep has recorded several steps while another has not started.
ProgressMonotoneWitness ==
    \E k1, k2 \in Sweeps : progress[k1] >= 3 /\ progress[k2] = -1

\* ------------------------------------------------------------------ C8
\* C8: no two workers are between their waits and their progress store for
\* the same sweep.
SingleWriter ==
    \A t1, t2 \in Threads :
        (t1 # t2 /\ InStep(t1) /\ InStep(t2)) => sweep[t1] # sweep[t2]

\* Steps of two different sweeps are running their kernels at the same time.
SingleWriterWitness ==
    \E t1, t2 \in Threads :
        /\ pc[t1] = "kernel" /\ pc[t2] = "kernel"
        /\ sweep[t1] # sweep[t2]

\* ------------------------------------------------------------------ C9
\* Worker t is between omp_set_lock and omp_unset_lock.
InCritical(t) == pc[t] \in {"lookup", "unlock"}

\* C9: at most one worker is inside a lookup/insert of reflectors, and it is
\* the holder of the lock; a worker that runs a kernel, waits, stores its
\* progress or has returned does not hold the lock; the lock is unset when
\* every worker has returned.
LockDiscipline ==
    /\ Cardinality({ t \in Threads : InCritical(t) }) <= 1
    /\ \A t \in Threads : InCritical(t) <=> lock = t + 1
    /\ \A t \in Threads :
          pc[t] \in {"kernel", "wait_prev", "wait_self", "store", "done"} =>
              lock # t + 1
    /\ AllDone => lock = 0

\* One worker holds the lock, a second waits for it and a third runs a kernel.
LockDisciplineWitness ==
    \E t1, t2, t3 \in Threads :
        /\ pc[t1] = "lookup" /\ lock = t1 + 1
        /\ pc[t2] = "step" /\ in_range(sweep[t2], step[t2])
        /\ pc[t3] = "kernel"

\* ------------------------------------------------------------------ C10
\* The step of the same sweep that wrote the reflector step s reads.
Producer(s) == IF s = 1 THEN 0 ELSE IF s % 2 = 0 THEN s - 1 ELSE s - 2

\* C10: when a task-1 or task-2 step is about to look up its keys, its input
\* key is in the map, it is the output key of the producing step of the same
\* sweep, and that step has finished: the lookup inserts no input key.
NoMissingEntry ==
    \A t \in Threads :
        (pc[t] = "lookup" /\ step[t] >= 1) =>
            /\ in_keys(sweep[t], step[t]) # {}
            /\ in_keys(sweep[t], step[t]) \subseteq reflectors
            /\ in_keys(sweep[t], step[t]) = out_keys(sweep[t], Producer(step[t]))
            /\ Completed(sweep[t], Producer(step[t]))

\* A task-1 step past the first block is about to look up the reflector written
\* two steps earlier, and a task-2 step the one written one step earlier.
NoMissingEntryWitness ==
    /\ band >= 3
    /\ \E t \in Threads : pc[t] = "lookup" /\ step[t] >= 3 /\ task(step[t]) = 1
    /\ \E t \in Threads : pc[t] = "wait_self" /\ task(step[t]) = 2

\* ------------------------------------------------------------------ C11
\* The steps called so far that write a reflector (task 0 and task 1).
Producers == { ks \in DOMAIN calls : out_keys(ks[1], ks[2]) # {} }

\* The steps called so far that write key.
WritersOf(key) == { ks \in Producers : key \in out_keys(ks[1], ks[2]) }

\* Every key of the map is the output key of exactly one called step, no entry
\* is ever removed, and when every worker has returned the map holds one
\* entry per reflector-producing step.
OneProducerPerKey ==
    /\ \A key \in reflectors : Cardinality(WritersOf(key)) <= 1
    /\ \A t \in Threads :
          pc[t] \in {"unlock", "kernel", "store"} =>
              \A key \in out_keys(sweep[t], step[t]) :
                  WritersOf(key) = { <<sweep[t], step[t]>> }
    /\ AllDone =>
          /\ \A key \in reflectors : Cardinality(WritersOf(key)) = 1
          /\ Cardinality(reflectors) = Cardinality(Producers)

\* C11: during one hb2td invocation every Reflector-Store key is written as an
\* output reflector by exactly one (sweep, step) pair, and at the end the
\* store holds one distinct entry per task-0 and task-1 step that ran.
InsertOnce == OneProducerPerKey

\* ------------------------------------------------------------------ C12
\* C12: hb2td called with band = 1 executes no step, leaves the Reflector
\* Store (and with it the matrix, which only a step's kernel touches)
\* unchanged, and every worker returns, for every diag_len.
TridiagonalNoOp ==
    band = 1 =>
        /\ DOMAIN calls = {}
        /\ reflectors = {}
        /\ \A t \in Threads : pc[t] # "kernel"
        /\ AllDone

\* ------------------------------------------------------------------ C13
\* The coordinates of step (k, s) lie outside the matrix.
OutOfRange(k, s) == coord_i(k, s) >= diag_len \/ coord_j(k, s) >= diag_len

\* hb2td_step called with coordinates outside the matrix never holds the
\* lock, never looks up the map and never runs a kernel; it cannot block, and
\* its one step is the return, with lock, map and Progress Table as they
\* were.
SilentNoOp ==
    /\ [](\A t \in Threads :
             OutOfRange(sweep[t], step[t]) =>
                 /\ pc[t] \in {"step", "store"}
                 /\ lock # t + 1
                 /\ reflectors = {}
                 /\ pc[t] = "step" => ENABLED SetLock(t))
    /\ [][\A t \in Threads :
             (pc[t] = "step" /\ OutOfRange(sweep[t], step[t])) =>
                 /\ pc'[t] = "store"
                 /\ lock' = lock
                 /\ reflectors' = reflectors
                 /\ progress' = progress]_vars

\* hb2td_run enters the body for (sweep, step) of worker t, and so reaches
\* its progress.at(sweep).store(step): if (step < nsteps_sweep).
BodyEntered(t) == step[t] < nsteps_sweep(sweep[t])

\* C13 as amended: hb2td_step called with coordinates outside the matrix does
\* nothing and returns at once, and such a (sweep, step) is never one whose
\* body hb2td_run enters, so it is never stored in progress[sweep].
OutOfRangeGuard ==
    /\ SilentNoOp
    /\ [](\A t \in Threads : OutOfRange(sweep[t], step[t]) => ~BodyEntered(t))

\* C13 as stated: hb2td_step called with coordinates outside the matrix does
\* nothing and returns at once, and hb2td_run records that step in
\* progress[sweep]: the call is in a body that hb2td_run enters.
OutOfRangeStepRecorded ==
    /\ SilentNoOp
    /\ [](\A t \in Threads :
             (OutOfRange(sweep[t], step[t]) /\ pc[t] = "store") => BodyEntered(t))

\* A call with coordinates outside the matrix has returned: the lock is free
\* and the map is empty.
OutOfRangeGuardWitness ==
    \E t \in Threads :
        /\ OutOfRange(sweep[t], step[t])
        /\ pc[t] = "store"
        /\ lock = 0
        /\ reflectors = {}

\* ------------------------------------------------------------------ C14
\* The call is valid (the assertions hold) and this rank owns no tile of C.
Vacant ==
    /\ asserts_hold
    /\ \A ti \in 0 .. C.mt - 1, tj \in 0 .. C.nt - 1 : ~tileIsLocal(ti, tj)

\* C14: when unmlq is called, on either side, on a rank that owns no tile of
\* C, the call is only ever at its entry or returned, W has no tile, no tile
\* of C is fetched to the host, held on a device or modified, no kernel is
\* issued and no task is pending; and the one step the call takes from its
\* entry is the return, which is always possible (no assertion fails, nothing
\* blocks).
RankLocalVacancy ==
    /\ [](Vacant =>
            /\ upc \in {"entry", "returned"}
            /\ W.tiles = {}
            /\ C.host = {}
            /\ C.held = {}
            /\ C.val = applied.C_entry
            /\ issued = << >>
            /\ pending = 0
            /\ upc = "entry" => ENABLED Enter)
    /\ [][(Vacant /\ upc = "entry") => upc' = "returned"]_vars

\* A valid call on a rank that owns none of the several tiles of C has
\* returned.
RankLocalVacancyWitness ==
    /\ Vacant
    /\ upc = "returned"
    /\ C.mt * C.nt > 1

\* ------------------------------------------------------------------ C15
\* Some extent of V, T, C or W is not as unmlq requires: an assertion of
\* unmlq does not hold, or T is not a single block-row with the tile columns
\* of V.
ExtentMismatch ==
    \/ ~asserts_hold
    \/ T.mt # V.mt
    \/ T.nt # V.nt

\* C15: when an extent of V, T, C or W is not as required, the call is only
\* ever at its entry or stopped on a failed assertion, with no tile in W, no
\* tile of C fetched, held or modified and no kernel issued; and the one step
\* it takes from its entry is the failure of an assertion.
PreconditionViolationsFatal ==
    /\ [](ExtentMismatch =>
            /\ upc \in {"entry", "assert_failed"}
            /\ W.tiles = {}
            /\ C.host = {}
            /\ C.held = {}
            /\ C.val = applied.C_entry
            /\ issued = << >>)
    /\ [][(ExtentMismatch /\ upc = "entry") => upc' = "assert_failed"]_vars

\* ------------------------------------------------------------------ C16
\* The phase of a kernel call: 2 for the multiply by op(T0); 3 for the calls
\* that write a part of C and for the second triangular multiply by V0 (by
\* V0^H on the left, by V0 on the right); 1 for the others, which build W
\* from C and V.
PhaseOf(kc) ==
    IF kc.a = "T0" THEN 2
    ELSE IF kc.c \in {"C0", "C0b", "C1"} THEN 3
    ELSE IF kc.kernel = "trmm" /\ kc.a = (IF side = "Left" THEN "V0^H" ELSE "V0") THEN 3
    ELSE 1

\* The calls of a phase issued so far.
IssuedOf(ph) == { x \in DOMAIN issued : PhaseOf(issued[x]) = ph }

\* The Phase-1 calls a call with these local blocks has to issue: the copy,
\* the multiply by V0, the trapezoid gemm, one gemm per further local block.
PhaseOneCalls == 2 + (IF trapezoid THEN 1 ELSE 0) + (Len(indices) - 1)

\* C16: the kernel calls are issued in the order of their phases; once the
\* Phase-2 multiply by op(T0) is issued (it is issued once) every Phase-1
\* call has been issued; and as long as it is not issued, no element of C has
\* changed.
ThreePhaseOrdering ==
    /\ \A x, y \in DOMAIN issued : x < y => PhaseOf(issued[x]) <= PhaseOf(issued[y])
    /\ Cardinality(IssuedOf(2)) <= 1
    /\ IssuedOf(2) # {} => Cardinality(IssuedOf(1)) = PhaseOneCalls
    /\ IssuedOf(3) # {} => IssuedOf(2) # {}
    /\ IssuedOf(2) = {} => C.val = applied.C_entry

\* A call on the right with a trapezoid tile and a further local block has
\* returned after all three phases, and C has changed.
ThreePhaseOrderingWitness ==
    /\ upc = "returned"
    /\ side = "Right"
    /\ Len(indices) > 1
    /\ trapezoid
    /\ Cardinality(IssuedOf(3)) = 4
    /\ C.val # applied.C_entry

\* ------------------------------------------------------------------ C17
\* The local tiles of block-row `first` (left) or block-column `first`
\* (right), once the call has found its local blocks.
FirstBlockLocalTiles ==
    IF indices = << >> THEN {}
    ELSE { ij \in C.local : (IF side = "Left" THEN ij[1] ELSE ij[2]) = indices[1] }

\* C17: W being given without tiles, the tiles of W are at any time among the
\* local tiles of block `first`; they are exactly those tiles from the insert
\* to the final loop; and W has no tile when the call has returned or has
\* failed an assertion.
WorkspaceLifecycle ==
    /\ W.tiles \subseteq FirstBlockLocalTiles
    /\ upc \in {"views", "copy", "trmm_v0", "gemm_v0b", "gemm_v1", "gemm_v1_call", "trmm_t0",
                 "gemm_c1", "gemm_c0b", "trmm_v0h", "geadd", "erase"}
          => W.tiles = FirstBlockLocalTiles
    /\ upc \in {"entry", "insert", "taskwait", "returned", "assert_failed"}
          => W.tiles = {}

\* A call with a trapezoid tile, whose block `first` has two local tiles, has
\* returned.
WorkspaceLifecycleWitness ==
    /\ upc = "returned"
    /\ indices # << >>
    /\ trapezoid
    /\ Cardinality(FirstBlockLocalTiles) = 2
    /\ W.tiles = {}

\* ------------------------------------------------------------------ C18
\* C18: whenever unmlq has returned, by the early return for a rank without
\* local tiles or at its end, no kernel call it issued has unfinished tasks.
BarrierAtExit == upc = "returned" => pending = 0

\* A call that issued all its kernels on a trapezoid tile with a further
\* local block has returned.
BarrierAtExitWitness ==
    /\ upc = "returned"
    /\ Len(issued) = 9
    /\ pending = 0

\* ------------------------------------------------------------------ C19
\* C19: when unmlq from the left with NoTrans and then unmlq from the left
\* with ConjTrans, on the same compact-WY pair (V, T), have both returned, C
\* has the elements it had before the first call.
RoundTrip ==
    (upc = "returned" /\ side = "Left" /\ applied.ops = <<"NoTrans", "ConjTrans">>)
        => C.val = applied.C_first

\* Both calls have returned on a rank with two local blocks and two
\* reflectors, the first call having changed C.
RoundTripWitness ==
    /\ upc = "returned"
    /\ applied.ops = <<"NoTrans", "ConjTrans">>
    /\ Len(indices) > 1
    /\ mb > 1
    /\ applied.C_entry # applied.C_first
    /\ C.val = applied.C_first

\* ------------------------------------------------------------------ C20
\* The whole mb-by-n block-row V of this rank as one operand: the unit upper
\* trapezoid in the tile of the first local block, the stored rows in the
\* further local blocks, zero in the blocks of other ranks.
WholeV ==
    Mat(mb, num_cols("V"),
        LAMBDA r, c :
            LET k == tile_of(V_tileNb, c)
                d == c - offset(V_tileNb, k)
            IN  IF \A x \in DOMAIN indices : indices[x] # k THEN 0
                ELSE IF k = first /\ d < r THEN 0
                ELSE IF k = first /\ d = r THEN 1
                ELSE V.val[<<r, c>>])

\* op(T): the upper triangle of the leading mb rows and columns of tile
\* T(0, first), conjugate transposed when op is NoTrans.
WholeOpT ==
    LET Tm == Mat(mb, mb, LAMBDA r, c :
                  IF r <= c THEN T.val[<<r, V.tileMb * first + c>>] ELSE 0)
    IN  IF op = "NoTrans" THEN conj_transpose(Tm) ELSE Tm

\* The unsplit formula applied to the elements cval of C:
\* C - V^H op(T) V C on the left, C - C V^H op(T) V on the right.
Unsplit(cval) ==
    LET Cm == [m |-> num_rows("C"), n |-> num_cols("C"), a |-> cval]
        VTV == MatMul(conj_transpose(WholeV), MatMul(WholeOpT, WholeV))
    IN  MatAdd(-1, IF side = "Left" THEN MatMul(VTV, Cm) ELSE MatMul(Cm, VTV), 1, Cm)

\* C20: when a call whose triangular tile is a trapezoid (mb < nb) has
\* returned, every element of a local tile of C has the value the unsplit
\* formula gives for the elements C had on entry, and the other elements of C
\* are as on entry.
TrapezoidSplitEquivalence ==
    (upc = "returned" /\ indices # << >> /\ trapezoid)
        => \A rc \in DOMAIN C.val :
              C.val[rc] = IF elementIsLocal(rc) THEN Unsplit(applied.C_entry).a[rc]
                                                ELSE applied.C_entry[rc]

\* A call on a trapezoid tile with a further local block has returned and has
\* changed C.
TrapezoidSplitEquivalenceWitness ==
    /\ upc = "returned"
    /\ indices # << >>
    /\ trapezoid
    /\ Len(indices) > 1
    /\ C.val # applied.C_entry

\* ------------------------------------------------------------------ C21
\* The call has issued a kernel on the rectangular part V0b of the split.
SplitApplied ==
    \E x \in DOMAIN issued :
        issued[x].a \in {"V0b", "V0b^H"} \/ issued[x].b \in {"V0b", "V0b^H"}

\* C21 as stated: a call on a tall triangular tile that has returned has
\* applied the trapezoid split too.
TallThenTrapezoidSplit ==
    (upc = "returned" /\ indices # << >> /\ tall) => SplitApplied

\* C21 amended: on a tall triangular tile (more rows than columns) the call
\* restricts V to its first nb rows and sets mb = nb, the trapezoid test that
\* follows is false, and no kernel is issued on a part V0b; a tile is split
\* only when it is wide before any correction.
TallCorrectionOnly ==
    /\ (indices # << >> /\ tall) =>
            /\ view_m(V_sliced) = nb
            /\ mb = nb
            /\ ~trapezoid
            /\ ~SplitApplied
    /\ (indices # << >> /\ trapezoid) => V0_tileMb < nb

\* A call on a tall tile with a further local block has returned and has
\* changed C.
TallCorrectionOnlyWitness ==
    /\ upc = "returned"
    /\ indices # << >>
    /\ tall
    /\ Len(indices) > 1
    /\ C.val # applied.C_entry
    /\ ~SplitApplied

\* ------------------------------------------------------------------ C22
\* The upper triangle of a square matrix, with ones on the diagonal if unit
\* is set, and zeros below the diagonal.
UpperTriangle(A, unit) ==
    [m |-> A.m, n |-> A.n,
     a |-> [rc \in (1 .. A.m) \X (1 .. A.n) |->
               IF rc[1] > rc[2] THEN 0
               ELSE IF rc[1] = rc[2] /\ unit THEN 1
               ELSE A.a[rc]]]

\* The transpose of a matrix of real numbers.
Transposed(A) ==
    [m |-> A.n, n |-> A.m,
     a |-> [rc \in (1 .. A.n) \X (1 .. A.m) |-> A.a[<<rc[2], rc[1]>>]]]

\* The elements of W after the view Wr of it is multiplied by A, from the
\* left on the left and from the right on the right.
MultipliedBy(A) ==
    Put(Wr, IF side = "Left" THEN MatMul(A, Get(Wr)) ELSE MatMul(Get(Wr), A))

\* C22: on both sides the Phase-2 multiply takes the upper non-unit triangle
\* of T0, transposed exactly when op is NoTrans and as it is for Trans and
\* for ConjTrans; the two multiplies by V0 take the upper unit triangle of V0
\* (transposed in Phase 3 on the left and in Phase 1 on the right).
OpHandling ==
    /\ [][(upc = "trmm_t0" /\ upc' # upc) =>
              W'.val = MultipliedBy(IF op = "NoTrans"
                                    THEN Transposed(UpperTriangle(Get(T0), FALSE))
                                    ELSE UpperTriangle(Get(T0), FALSE))]_vars
    /\ [][(upc = "trmm_v0" /\ upc' # upc) =>
              W'.val = MultipliedBy(IF side = "Left"
                                    THEN UpperTriangle(Get(V0), TRUE)
                                    ELSE Transposed(UpperTriangle(Get(V0), TRUE)))]_vars
    /\ [][(upc = "trmm_v0h" /\ upc' # upc) =>
              W'.val = MultipliedBy(IF side = "Left"
                                    THEN Transposed(UpperTriangle(Get(V0), TRUE))
                                    ELSE UpperTriangle(Get(V0), TRUE))]_vars

\* A call on the right with op = Trans and two reflectors has made the
\* Phase-2 multiply, which changed W.
OpHandlingWitness ==
    /\ upc = "gemm_c1"
    /\ op = "Trans"
    /\ side = "Right"
    /\ mb > 1
    /\ Len(issued) > 0
    /\ issued[Len(issued)].a = "T0"
    /\ \E rc \in DOMAIN W.val : W.val[rc] # 0


\* ------------------------------------------------------------------- C23
\* The instantiation of hb2td that the dispatcher calls has been entered.
Dispatched == hb2td_variant(opts) # "none"

\* C23: hb2td called without a Target entry runs the HostTask variant, and so
\* does Target::Host; and whichever enumerator of Target the options hold (or
\* none), the reduction is the same: every call is a step of the grid, made
\* once, and when the workers have returned every step of every sweep has
\* been made and every sweep's progress stands at its last step.
TargetDefault ==
    /\ opts \in {"absent", "Host", "HostTask"} => hb2td_variant(opts) = "HostTask"
    /\ opts \in Targets \cup {"absent"} =>
          /\ Dispatched
          /\ DOMAIN calls \subseteq ValidSteps
          /\ \A ks \in DOMAIN calls : calls[ks] = 1
          /\ AllDone =>
                /\ DOMAIN calls = ValidSteps
                /\ \A k \in Sweeps : progress[k] = nsteps(k) - 1

\* hb2td was called without a Target entry on a matrix with two sweeps or
\* more, by workers that have made every step and returned.
TargetDefaultWitness ==
    /\ opts = "absent"
    /\ diag_len >= 4
    /\ thread_size >= 2
    /\ AllDone
    /\ DOMAIN calls = ValidSteps
    /\ ValidSteps # {}


\* ------------------------------------------------------------------- C25
\* C25: the value the getter has just returned is the value of the most recent
\* setter call, or, when the setter was never called, true exactly when the
\* environment variable held "" or "1" at the first access; and the
\* environment is read at most once.
GpuAwareFlag ==
    /\ cfg.last = "get" =>
          cfg.result = IF cfg.set # "none"
                       THEN cfg.set
                       ELSE IF cfg.first_env \in {"", "1"} THEN "true" ELSE "false"
    /\ cfg.getenvs <= 1

\* The getter has just returned true a second time, the setter never called,
\* after the variable, "" at the first access, was changed to "0".
GpuAwareFlagWitness ==
    /\ cfg.last = "get"
    /\ cfg.set = "none"
    /\ cfg.first_env = ""
    /\ cfg.env = "0"
    /\ cfg.result = "true"


\* ------------------------------------------------------------------- C24
\* The gemms over the further local blocks issued so far.
BlockGemms == { x \in DOMAIN issued : issued[x].c = "W" /\ issued[x].blocks # {} }

\* The local tiles of the block at place i of row_indices / col_indices.
TilesOfBlock(i) ==
    { ij \in C.local : (IF side = "Left" THEN ij[1] ELSE ij[2]) = indices[i] }

\* C24: with target = Devices, when the Phase-1 gemm that reads a further
\* local block of C is about to be issued, and ever after, the local tiles of
\* that block are held on the devices; with any other target no tile of C is
\* ever held.
DeviceHoldBeforeUse ==
    /\ target = "Devices" =>
          /\ upc = "gemm_v1_call" => TilesOfBlock(loop_i + 1) \subseteq C.held
          /\ \A x \in BlockGemms :
                \A ij \in C.local :
                    (IF side = "Left" THEN ij[1] ELSE ij[2]) \in issued[x].blocks
                        => ij \in C.held
          /\ Cardinality(BlockGemms) = (IF loop_i = 0 THEN 0 ELSE loop_i - 1)
    /\ target # "Devices" => C.held = {}

\* With target = Devices, the gemm on the second local block is about to be
\* issued and the block's tiles are held.
DeviceHoldBeforeUseWitness ==
    /\ target = "Devices"
    /\ upc = "gemm_v1_call"
    /\ BlockGemms = {}
    /\ TilesOfBlock(loop_i + 1) # {}
    /\ TilesOfBlock(loop_i + 1) \subseteq C.held


\* ------------------------------------------------------------------- C30
\* C30: no resource outlives the call: when unmlq has returned, every hold
\* taken on tiles of C for the devices has been released.
HoldsReleasedAtReturn == upc = "returned" => C.held = {}


\* ------------------------------------------------------------------- C28
\* The blocks of C other than the first that the Phase-1 gemms have read.
AccumulatedBlocks == UNION { issued[x].blocks : x \in BlockGemms }

\* The Phase-3 gemm on the further blocks, once issued.
UpdateGemms == { x \in DOMAIN issued : issued[x].c = "C1" }

\* The further local blocks: row_indices[1..] / col_indices[1..].
FurtherBlocks == { indices[i] : i \in 2 .. Len(indices) }

\* The blocks other than the first in which the call has changed C.
ChangedBlocks ==
    { k \in 0 .. (IF side = "Left" THEN C.mt ELSE C.nt) - 1 :
        /\ k \notin { indices[i] : i \in 1 .. Min(1, Len(indices)) }
        /\ \E rc \in DOMAIN C.val :
              /\ tile_of(IF side = "Left" THEN C.tileMb ELSE C.tileNb,
                         IF side = "Left" THEN rc[1] ELSE rc[2]) = k
              /\ C.val[rc] # applied.C_entry[rc] }

\* C28: the blocks of C other than the first that Phase 1 accumulates into W
\* are exactly the blocks the Phase-3 gemm updates, for any ownership, also
\* when the local blocks are not contiguous: the Phase-3 gemm is issued once
\* when there is a further local block, it reaches the blocks the Phase-1
\* gemms read, which are the further local blocks, and no other block of C
\* is changed.
BlockConsistency ==
    /\ Cardinality(UpdateGemms) <= 1
    /\ \A x \in UpdateGemms : issued[x].blocks = AccumulatedBlocks
    /\ upc \in {"gemm_c0b", "trmm_v0h", "geadd", "erase", "taskwait", "returned"} =>
          /\ AccumulatedBlocks = FurtherBlocks
          /\ (FurtherBlocks # {}) = (UpdateGemms # {})
          /\ ChangedBlocks \subseteq FurtherBlocks

\* The call has returned on a C whose local blocks are 0, 2 and 4: Phase 1
\* read blocks 2 and 4 and the Phase-3 gemm, issued on blocks 2..4, changed
\* blocks 2 and 4 and left block 3 alone.
BlockConsistencyWitness ==
    /\ upc = "returned"
    /\ indices = <<0, 2, 4>>
    /\ AccumulatedBlocks = {2, 4}
    /\ ChangedBlocks = {2, 4}
    /\ \E x \in UpdateGemms : issued[x].blocks = {2, 4}


\* ------------------------------------------------------------------- C26
\* The start_thread of the pass that starts at sweep p: 0 for the first pass,
\* then the previous start_thread plus the steps of the previous pass's first
\* sweep, modulo thread_size.
RECURSIVE StartThreadOf(_)
StartThreadOf(p) ==
    IF p <= 0 THEN 0
    ELSE (StartThreadOf(p - pass_size) + NSteps(p - pass_size)) % thread_size

\* Worker t is inside the loops of hb2td_run, at a step of a sweep.
AtStep(t) == pc[t] \in {"wait_prev", "wait_self"} \/ InStep(t)

\* C26: every worker that is at a step of a sweep is in a pass that starts at a
\* multiple of pass_size, holds the start_thread of that pass (the same for
\* every worker), is at a sweep of the pass, and has the rank
\* (start_thread + step) mod thread_size; so the worker at step 0 of a later
\* pass is the one after the worker that ran the last step of the previous
\* pass's first sweep.
RotatingAssignment ==
    \A t \in Threads :
        AtStep(t) =>
            /\ pass[t] % pass_size = 0
            /\ start_thread[t] = StartThreadOf(pass[t])
            /\ sweep[t] \in pass[t] .. pass[t] + pass_size - 1
            /\ t = (start_thread[t] + step[t]) % thread_size
            /\ (step[t] = 0 /\ pass[t] > 0) =>
                  LET prev == pass[t] - pass_size
                      last == (StartThreadOf(prev) + NSteps(prev) - 1) % thread_size
                  IN  t = (last + 1) % thread_size

\* Worker 2 of 3 is executing step 0 of a later pass, whose start_thread is
\* 2, and worker 0 waits for it at step 1 of the same pass.
RotatingAssignmentWitness ==
    /\ thread_size = 3
    /\ InStep(2)
    /\ pass[2] > 0
    /\ step[2] = 0
    /\ start_thread[2] = 2
    /\ pc[0] = "wait_self"
    /\ pass[0] = pass[2]
    /\ step[0] = 1


\* ------------------------------------------------------------------- C27
\* The rows and columns of A a step is given, whole blocks: a diagonal block
\* of band rows from the sweep's first row for step 0, an off-diagonal block
\* of band-1 rows and columns for an odd step, a diagonal block of band-1 rows
\* for an even step after 0.
Region(k, s) ==
    LET n == diag_len
        blk == s \div 2
        rows(a, b) == a .. Min(b, n - 1)
    IN  IF s = 0 THEN rows(k, k + band - 1) \X rows(k, k + band - 1)
        ELSE IF s % 2 = 1
        THEN rows((blk + 1) * (band - 1) + 1 + k, (blk + 1) * (band - 1) + 1 + k + band - 2)
                \X rows(blk * (band - 1) + 1 + k, blk * (band - 1) + 1 + k + band - 2)
        ELSE rows(blk * (band - 1) + 1 + k, blk * (band - 1) + 1 + k + band - 2)
                \X rows(blk * (band - 1) + 1 + k, blk * (band - 1) + 1 + k + band - 2)

\* C27: any two workers that are executing steps at the same time, each
\* between its waits and its progress store, were given slices of A with no
\* element in common.
ConcurrentSlicesDisjoint ==
    \A t, u \in Threads :
        (t # u /\ InStep(t) /\ InStep(u)) =>
            /\ slice(sweep[t], step[t]) \subseteq Region(sweep[t], step[t])
            /\ Region(sweep[t], step[t]) \cap Region(sweep[u], step[u]) = {}

\* Three workers are executing steps of three sweeps at the same time, each
\* on a slice that is not empty.
ConcurrentSlicesDisjointWitness ==
    \E t, u, w \in Threads :
        /\ InStep(t) /\ InStep(u) /\ InStep(w)
        /\ sweep[t] < sweep[u] /\ sweep[u] < sweep[w]
        /\ slice(sweep[t], step[t]) # {}
        /\ slice(sweep[u], step[u]) # {}
        /\ slice(sweep[w], step[w]) # {}
        /\ band = 3


\* ------------------------------------------------------------------- C29
\* The invocation of rank t spins in one of its two busy-waits.
Spinning(t) ==
    \/ pc[t] = "wait_prev" /\ ~prev_ready(t)
    \/ pc[t] = "wait_self" /\ ~self_ready(t)

\* A deadlock of the tasks: every invocation that occupies a thread spins, an
\* invocation is still to be started, and none can be started.
TaskDeadlock ==
    /\ Occupying # {}
    /\ \A t \in Occupying : Spinning(t)
    /\ \E t \in Threads : pc[t] = "not_started"
    /\ ~ENABLED (\E t \in Threads : Start(t))

\* The invocations that have at least one step to execute.
WithSteps == { t \in Threads : ~first_iter(t).done }

\* Fewer threads than invocations, two or more invocations, and a sweep of
\* two steps or more.
FewerThreads ==
    /\ team < thread_size
    /\ thread_size >= 2
    /\ \E k \in Sweeps : NSteps(k) >= 2

\* Every invocation but rank 0's, which owns the first step, has been started
\* and has returned or reached a busy-wait that does not end.
OthersStartedFirst ==
    /\ pc[0] = "not_started"
    /\ \A t \in Threads \ {0} : pc[t] = "done" \/ Spinning(t)

\* C29 as stated: with fewer threads than invocations, thread_size >= 2 and a
\* sweep of two steps or more a deadlock state is reachable; so the schedule
\* most apt to deadlock, the one that starts every other invocation before
\* rank 0's, ends in a deadlock.
TaskDeadlockWhenever == (FewerThreads /\ OthersStartedFirst) => TaskDeadlock

\* C29, amended: the tasks deadlock only when the threads are fewer than the
\* invocations that have a step to execute; and they do deadlock when as
\* many invocations as there are threads have been started before rank 0's
\* and have reached their busy-waits.
TaskDeadlockFewerThanWithSteps ==
    /\ TaskDeadlock => team < Cardinality(WithSteps)
    /\ (/\ pc[0] = "not_started"
        /\ Cardinality(Occupying) = team
        /\ \A t \in Occupying :
              pc[t] = "wait_self" \/ (pc[t] = "wait_prev" /\ sweep[t] > 0)) => TaskDeadlock

\* One thread for two invocations: rank 1 was started first and spins on the
\* progress of step 0, which rank 0, not started, would store.
TaskDeadlockFewerThanWithStepsWitness ==
    /\ thread_size = 2
    /\ team = 1
    /\ TaskDeadlock
    /\ pc[1] = "wait_self"
    /\ pc[0] = "not_started"
    /\ progress[0] = -1


\* ------------------------------------------------------------------- C31
\* Worker t holds the references reflectors[...] returned under the lock: from
\* the lookup until its kernel has returned.
HoldsReferences(t) == pc[t] \in {"unlock", "kernel"}

\* C31: no two steps that are executing at the same time hold a reference to
\* the same entry of the Reflector Store when one of them writes it.
ReflectorRaceFreedom ==
    \A t, u \in Threads :
        (t # u /\ HoldsReferences(t) /\ HoldsReferences(u)) =>
            out_keys(sweep[t], step[t]) \cap lookup_keys(sweep[u], step[u]) = {}


\* ------------------------------------------------------------------- C32
\* C32: every step of the grid, step s < nsteps(k) of sweep k, has coordinates
\* i < A.n() and j < A.n(); so every step hb2td_run has called, and every step
\* a worker is about to run, passes the range guard of hb2td_step.
EveryStepInRange ==
    /\ \A ks \in ValidSteps : in_range(ks[1], ks[2])
    /\ \A ks \in DOMAIN calls : in_range(ks[1], ks[2])
    /\ \A t \in Threads :
          pc[t] = "step" =>
              /\ coord_i(sweep[t], step[t]) < diag_len
              /\ coord_j(sweep[t], step[t]) < diag_len

\* A worker is at the range guard of the last step of a later sweep, a
\* diagonal task whose row i is the last row of A, the largest i in range.
EveryStepInRangeWitness ==
    \E t \in Threads :
        /\ pc[t] = "step"
        /\ sweep[t] > 0
        /\ step[t] = nsteps(sweep[t]) - 1
        /\ task(step[t]) = 2
        /\ coord_i(sweep[t], step[t]) = diag_len - 1
        /\ band >= 3


\* ------------------------------------------------------------------- C35
\* C35: hb2td called on a matrix of order 0, 1 or 2 has an empty Progress
\* Table, executes no step, leaves the Reflector Store (and the matrix, which
\* only a step's kernel touches) unchanged, and every worker has returned:
\* the call returns normally.
DegenerateSizes ==
    diag_len \in 0 .. 2 =>
        /\ DOMAIN progress = {}
        /\ DOMAIN calls = {}
        /\ reflectors = {}
        /\ AllDone


\* ------------------------------------------------------------------- C33
\* The call has taken its views of V, T, C and W.
ViewsTaken ==
    /\ indices # << >>
    /\ upc \notin {"entry", "insert", "views", "assert_failed"}

\* The extent of a view of C or W along the side Q is applied from: its rows
\* on the left, its columns on the right.
side_extent(v) == IF side = "Left" THEN view_m(v) ELSE view_n(v)

\* C33: whatever the shape of V's tile at block `first` (tall, square or
\* wide), after the corrections V0 and T0 are square of order min(mb, nb), C0
\* and the W view have min(mb, nb) rows (left) or columns (right), and the
\* parts V0b and C0b exist exactly when mb < nb, with nb - mb columns of V0b
\* and nb - mb rows (left) or columns (right) of C0b.
SquareTriangularOperands ==
    ViewsTaken =>
        LET order == Min(V0_tileMb, nb)
        IN  /\ V0_tileMb >= 1 /\ nb >= 1
            /\ view_m(V0) = order /\ view_n(V0) = order
            /\ view_m(T0) = order /\ view_n(T0) = order
            /\ side_extent(C0) = order
            /\ side_extent(Wr) = order
            /\ trapezoid <=> V0_tileMb < nb
            /\ view_n(V0b) = nb - order
            /\ view_m(V0b) = order
            /\ side_extent(C0b) = nb - order
            /\ SplitApplied => V0_tileMb < nb
            /\ (upc = "returned" /\ V0_tileMb < nb) => SplitApplied

\* A call on a tall tile, from the right, has multiplied by the triangle V0.
SquareTriangularOperandsWitness ==
    /\ ViewsTaken
    /\ tall
    /\ side = "Right"
    /\ upc = "gemm_v0b"
    /\ Len(issued) > 0


\* ------------------------------------------------------------------- C34
\* The number of element rows (left) or columns (right) of C that lie in the
\* blocks before `first`, and the number of element columns of V that lie in
\* its block columns before `first`.
C_before_first ==
    IF side = "Left" THEN offset(tile_heights("C"), first)
                     ELSE offset(tile_widths("C"), first)
V_before_first == offset(tile_widths("V"), first)

\* The views of C that the kernels of the call read or write, and the views
\* of V that they read.
C_views ==
    {C0}
        \cup (IF trapezoid THEN {C0b} ELSE {})
        \cup { C_block(indices[x]) : x \in 2 .. Len(indices) }
        \cup (IF Len(indices) > 1 THEN { C_blocks_from(indices[2]) } ELSE {})
V_views ==
    {V0_whole}
        \cup { V_sub(indices[x], indices[x]) : x \in 2 .. Len(indices) }
        \cup (IF Len(indices) > 1
              THEN { V_sub(indices[2], (IF side = "Left" THEN C.mt ELSE C.nt) - 1) }
              ELSE {})

\* The elements of C in the blocks before `first` are as they were when the
\* call was entered.
BeforeFirstUntouched ==
    \A rc \in DOMAIN C.val :
        (IF side = "Left" THEN rc[1] ELSE rc[2]) <= C_before_first =>
            C.val[rc] = applied.C_entry[rc]

\* C34: a call never reads or writes C in a block row (left) or block column
\* (right) before `first`, never reads V in a block column before `first`,
\* and never modifies V or T: the caller's V keeps its extents and its data.
FrameOfUnmlq ==
    /\ [][V' = V /\ T' = T]_vars
    /\ [](indices # << >> =>
            /\ \A v \in C_views :
                  (IF side = "Left" THEN v.r1 ELSE v.c1) > C_before_first
            /\ \A v \in V_views : v.c1 > V_before_first
            /\ BeforeFirstUntouched)

\* A call from the left whose first local block is not block 0 and that has
\* a further local block has returned and has changed C.
FrameOfUnmlqWitness ==
    /\ upc = "returned"
    /\ side = "Left"
    /\ Len(indices) > 1
    /\ first > 0
    /\ C.val # applied.C_entry

====
